---- MODULE Spec2Model ----
(***************************************************************************)
(* Verification model of the PDF-to-podcast backend.                       *)
(*                                                                         *)
(*   SpecQueue  RequestQueue (backend/app.js, class RequestQueue) driven   *)
(*              by the concurrent chunked fallback of POST /api/generate   *)
(*              (the revision that submits every chunk through the queue). *)
(*   SpecChunk  splitTextIntoChunks (backend/app.js) on bounded texts.     *)
(*   SpecGen    POST /api/generate of backend/app.js: whole-document call, *)
(*              oversize fallback, processChunkWithGroq retry loop.        *)
(*   SpecTts    the audio stage of POST /api/generate for two requests in  *)
(*              flight: synthesis loop, pauses, combination, cleanup.      *)
(*   SpecTrim   trimScriptPreservingStructure and the handler's use of it. *)
(*   SpecBudget the word budget processChunkWithGroq gives a chunk.        *)
(*   SpecVoice  one script line from optimizeScriptForTTS to the call of   *)
(*              synthesizeSpeech.                                          *)
(*   SpecPost   the transforms POST /api/generate applies to the script    *)
(*              between generation and synthesis.                          *)
(***************************************************************************)
EXTENDS Integers, Sequences, FiniteSets, TLC

\* ---------------------------------------------------------------- bounds
\* number of tasks (chunk requests) submitted to one RequestQueue
MaxTasks == 3
\* largest maxConcurrent a queue is constructed with
MaxConcurrent == 3
\* largest minInterval (in clock ticks) a queue is constructed with
MaxInterval == 2

Tasks == 1..MaxTasks

VARIABLES
  \* ---- RequestQueue fields (constructor, app.js 355-361)
  maxConcurrent,        \* this.maxConcurrent
  minInterval,          \* this.minInterval
  queue,                \* this.queue: closures execRequest, by task id
  activeRequests,       \* this.activeRequests
  timeSinceLastRequest, \* Date.now() - this.lastRequestTime, saturated at minInterval
  \* ---- one execRequest closure per task
  pc,                   \* position of each task's execRequest
  timer,                \* remaining delay of the setTimeout a task awaits
  promise,              \* state of the promise returned by add(requestFn)
  outcome,              \* what requestFn itself did: "none" | "ok" | "err"
  \* ---- observation of the starts (requestFn invocations)
  started,              \* task ids in the order requestFn was invoked
  sinceLastStart,       \* ticks since the latest requestFn invocation, saturated
  lastStartGap,         \* sinceLastStart as it was at the latest invocation
  \* ---- chunked fallback that owns the queue
  chunkResults,         \* chunkResults[i], 0 = undefined
  arrival,              \* chunk ids in completion order
  \* ---- POST /api/generate, shared by both revisions of the handler
  completeScript,       \* completeScript, <<>> while empty
  response,             \* what res was answered: "none" | "error"
  \* ---- POST /api/generate of backend/app.js, script generation
  genPc,                \* position of the handler
  wholeCalls,           \* whole-document requests sent to the Groq API
  wholeResult,          \* how the whole-document request ended, "none" before
  nChunks,              \* chunks.length after splitTextIntoChunks(text)
  oversizeLast,         \* the last chunk is longer than GROQ_MAX_CHUNK_CHARS
  chunkIdx,             \* loop variable i of the fallback loop (0-based)
  scripts,              \* local scripts: results pushed so far, by chunk number
  retryCount,           \* processChunkWithGroq: retryCount
  retryDelay,           \* processChunkWithGroq: retryDelay, in quarter ms
  retryAfter,           \* retry-after header of the 429 waited for, in s, 0 if none
  waitTime,             \* delay of the setTimeout awaited, in quarter ms, 0 if none
  attempts,             \* Groq requests sent for each chunk number
  rateLimited,          \* 429 answers to the current chunk
  lastError,            \* kind of the error that was thrown last
  requestLog,           \* every Groq request in send order: "whole" or chunk number
  respScript,           \* script field of the answer, <<>> when there is none
  \* ---- splitTextIntoChunks(text), one loop iteration per step
  text,                 \* the argument, a sequence of characters
  chunkPc,              \* "call" | "loop" | "done"
  targetChunkSize,      \* local targetChunkSize
  chunks,               \* local chunks, the returned array once "done"
  startIndex,           \* local startIndex (0-based)
  truncated,            \* some chunk went through the truncation branch
  valveFired,           \* the MAX_CHUNK_COUNT safety check appended the rest
  \* ---- host state shared by every request of the audio stage
  ffmpegAvailable,      \* audio-utils.js: const ffmpegAvailable
  budgetExhausted,      \* the AWS budget action has restricted Polly access
  disk,                 \* files of TEMP_DIR and OUTPUT_DIR: path -> content
  \* ---- POST /api/generate, audio stage, one instance per request
  ttsPc,                \* position of the handler in the audio stage
  nLines,               \* lines.length
  lineI,                \* loop variable i of the synthesis loop
  pauseLength,          \* pauseLength of the pause being created, 0 if none
  audioSegments,        \* local audioSegments: paths in push order
  combinedSuccess,      \* local combinedSuccess: "none" | "true" | "false"
  repairSuccess,        \* local repairSuccess: "none" | "true" | "false"
  removed,              \* segments the cleanup loop has passed
  ttsResponse,          \* what res was answered in the audio stage
  \* ---- observation of the audio stage
  synthCalls,           \* line indexes handed to synthesizeSpeech, in order
  failedLines,          \* line indexes whose synthesis failed
  budgetHitAt,          \* first line refused for the budget, -1 if none
  produced,             \* segments the request produced, in production order
  assembled,            \* content combineAudioFiles wrote for the request
  \* ---- trimScriptPreservingStructure and the handler's use of it
  trimPc,               \* "idle" | "call" | "returned" | "accepted"
  script,               \* the script before trimming, a sequence of lines
  maxWordCount,         \* argument maxWordCount
  trimResult,           \* the script kept
  \* ---- processChunkWithGroq, word budget of one chunk
  budgetPc,             \* "idle" | "call" | "done"
  targetWordCount,      \* argument targetWordCount
  totalChunks,          \* argument totalChunks
  chunkNumber,          \* argument chunkNumber (1-based)
  chunkWordCount,       \* local chunkWordCount, 0 before it is computed
  \* ---- one line of the script on its way to the synthesizer
  voicePc,              \* "idle" | "script" | "line" | "dropped" | "synthesized"
  ttsEngine,            \* process.env.TTS_ENGINE
  rawLine,              \* the line in completeScript
  lineNo,               \* index i the line gets in lines
  optLine,              \* the line in lines, <<>> before and when dropped
  synthArgs,            \* text and voice handed to synthesizeSpeech
  \* ---- POST /api/generate, the script between generation and synthesis
  postPc,               \* position of the handler in the post-processing
  usedChunking,         \* local usedChunking
  scriptAnalysis,       \* local scriptAnalysis, what analyzeScript returned
  stageLog,             \* observation: the transforms in the order they ran
  optimizedScript       \* local optimizedScript

qvars == <<maxConcurrent, minInterval, queue, activeRequests,
           timeSinceLastRequest, pc, timer, promise, outcome, started,
           sinceLastStart, lastStartGap, chunkResults, arrival>>

rvars == <<completeScript, response>>

gvars == <<genPc, wholeCalls, wholeResult, nChunks, oversizeLast, chunkIdx,
           scripts, retryCount, retryDelay, retryAfter, waitTime, attempts,
           rateLimited, lastError, requestLog, respScript>>

cvars == <<text, chunkPc, targetChunkSize, chunks, startIndex, truncated,
           valveFired>>

hvars == <<ffmpegAvailable, budgetExhausted, disk>>

tvars == <<ttsPc, nLines, lineI, pauseLength, audioSegments, combinedSuccess,
           repairSuccess, removed, ttsResponse, synthCalls, failedLines,
           budgetHitAt, produced, assembled>>

svars == <<trimPc, script, maxWordCount, trimResult>>

\* variables of the specifications of single functions
bvars == <<budgetPc, targetWordCount, totalChunks, chunkNumber,
           chunkWordCount>>

vvars == <<voicePc, ttsEngine, rawLine, lineNo, optLine, synthArgs>>

pvars == <<svars, bvars, vvars>>

ovars == <<postPc, usedChunking, scriptAnalysis, stageLog, optimizedScript>>

\* variables the RequestQueue specification leaves alone
notQ == <<cvars, gvars, hvars, tvars, pvars, ovars>>
\* variables the chunker specification leaves alone
notC == <<qvars, rvars, gvars, hvars, tvars, pvars, ovars>>
\* variables the script-generation specification leaves alone
notG == <<qvars, cvars, hvars, tvars, pvars, ovars>>
\* variables the audio stage leaves alone
notT == <<qvars, rvars, cvars, gvars, pvars, ovars>>
\* variables the specifications of single functions leave alone
notP == <<qvars, rvars, cvars, gvars, hvars, tvars, ovars>>
\* variables the post-processing of the script leaves alone
notO == <<qvars, cvars, gvars, hvars, tvars, pvars>>

\* ------------------------------------------------------ splitTextIntoChunks
\* Characters are one-character strings; a text is a sequence of them.
LF == "\n"
Min(a, b) == IF a < b THEN a ELSE b
Max(a, b) == IF a > b THEN a ELSE b

\* The three size constants are scaled down together (source: 10000, 12 and
\* floor(6000 * 3.5 * 0.9) = 18900) so that TLC can enumerate texts long
\* enough to reach the size ceiling and the chunk-count ceiling.
OPTIMAL_CHUNK_SIZE == 5
MAX_CHUNK_COUNT == 3
GROQ_MAX_CHUNK_CHARS == 10

\* String.prototype.lastIndexOf(pat, fromIndex), 0-based, -1 when absent:
\* the scan runs downwards from min(fromIndex, length - pat.length)
RECURSIVE ScanDown(_, _, _)
ScanDown(txt, pat, i) ==
  IF i < 0 THEN -1
  ELSE IF SubSeq(txt, i + 1, i + Len(pat)) = pat THEN i
  ELSE ScanDown(txt, pat, i - 1)

lastIndexOf(txt, pat, fromIndex) ==
  ScanDown(txt, pat, Min(fromIndex, Len(txt) - Len(pat)))

\* String.prototype.substring(from, to), 0-based, to exclusive
substring(txt, from, to) == SubSeq(txt, from + 1, Min(to, Len(txt)))

\* Math.ceil(a / b) for a >= 0, b > 0
CeilDiv(a, b) == (a + b - 1) \div b

\* mutant: a boundary is taken wherever it lies before endIndex, the search
\* window is not looked at
FindEndIndex_NoWindow(txt, start, size) ==
  LET idealEndIndex == start + size
      endIndex == Min(idealEndIndex, Len(txt))
      searchWindowStart == -1
      paragraphBreak == lastIndexOf(txt, <<LF, LF>>, endIndex)
      lineBreak == lastIndexOf(txt, <<LF>>, endIndex)
      maxPunctuation == Max(lastIndexOf(txt, <<".">>, endIndex),
                            Max(lastIndexOf(txt, <<"?">>, endIndex),
                                lastIndexOf(txt, <<"!">>, endIndex)))
      lastSpace == lastIndexOf(txt, <<" ">>, endIndex)
  IN IF ~(endIndex < Len(txt)) THEN endIndex
     ELSE IF paragraphBreak > searchWindowStart THEN paragraphBreak + 2
     ELSE IF lineBreak > searchWindowStart THEN lineBreak + 1
     ELSE IF maxPunctuation > searchWindowStart THEN maxPunctuation + 1
     ELSE IF lastSpace > searchWindowStart THEN lastSpace + 1
     ELSE endIndex

\* app.js 279-323: the end index of the chunk that starts at start
FindEndIndex(txt, start, size) ==
  LET idealEndIndex == start + size
      endIndex == Min(idealEndIndex, Len(txt))
      \* Math.floor(targetChunkSize * 0.2)
      searchWindowStart == Max(start, endIndex - (size \div 5))
      paragraphBreak == lastIndexOf(txt, <<LF, LF>>, endIndex)
      lineBreak == lastIndexOf(txt, <<LF>>, endIndex)
      maxPunctuation == Max(lastIndexOf(txt, <<".">>, endIndex),
                            Max(lastIndexOf(txt, <<"?">>, endIndex),
                                lastIndexOf(txt, <<"!">>, endIndex)))
      lastSpace == lastIndexOf(txt, <<" ">>, endIndex)
  IN IF ~(endIndex < Len(txt)) THEN endIndex
     ELSE IF paragraphBreak > searchWindowStart THEN paragraphBreak + 2
     ELSE IF lineBreak > searchWindowStart THEN lineBreak + 1
     ELSE IF maxPunctuation > searchWindowStart THEN maxPunctuation + 1
     ELSE IF lastSpace > searchWindowStart THEN lastSpace + 1
     ELSE endIndex

\* app.js 256-273
TargetChunkSize(txt) ==
  LET minChunksNeeded == CeilDiv(Len(txt), OPTIMAL_CHUNK_SIZE)
      targetChunks == Min(minChunksNeeded, MAX_CHUNK_COUNT)
      size == CeilDiv(Len(txt), targetChunks)
  IN IF size > GROQ_MAX_CHUNK_CHARS THEN GROQ_MAX_CHUNK_CHARS ELSE size

\* app.js 249-276: entry of splitTextIntoChunks
SplitCall ==
  /\ chunkPc = "call"
  /\ IF Len(text) < OPTIMAL_CHUNK_SIZE
       THEN /\ chunks' = <<text>>
            /\ chunkPc' = "done"
            /\ UNCHANGED targetChunkSize
       ELSE /\ targetChunkSize' = TargetChunkSize(text)
            /\ chunks' = <<>>
            /\ chunkPc' = "loop"
  /\ startIndex' = 0
  /\ UNCHANGED <<notC, text, truncated, valveFired>>

\* mutant: after a truncation the next chunk starts at endIndex
PushChunk_SkipTail(txt, chs, start, endIndex) ==
  LET chunk == substring(txt, start, endIndex) IN
  IF Len(chunk) > GROQ_MAX_CHUNK_CHARS
    THEN [chunks |-> Append(chs, substring(chunk, 0, GROQ_MAX_CHUNK_CHARS)),
          startIndex |-> endIndex,
          truncated |-> TRUE]
    ELSE [chunks |-> Append(chs, chunk),
          startIndex |-> endIndex,
          truncated |-> FALSE]

\* app.js 325-336: the chunk pushed for [start, endIndex) and the next start
PushChunk(txt, chs, start, endIndex) ==
  LET chunk == substring(txt, start, endIndex) IN
  IF Len(chunk) > GROQ_MAX_CHUNK_CHARS
    THEN [chunks |-> Append(chs, substring(chunk, 0, GROQ_MAX_CHUNK_CHARS)),
          startIndex |-> start + GROQ_MAX_CHUNK_CHARS,
          truncated |-> TRUE]
    ELSE [chunks |-> Append(chs, chunk),
          startIndex |-> endIndex,
          truncated |-> FALSE]

\* mutant: the safety check compares with MAX_CHUNK_COUNT
SafetyCheck_Late(txt, chs, start) ==
  Len(chs) = MAX_CHUNK_COUNT /\ start < Len(txt)

\* app.js 338-342: the safety check after a push
SafetyCheck(txt, chs, start) ==
  Len(chs) = MAX_CHUNK_COUNT - 1 /\ start < Len(txt)

\* app.js 278-343: one iteration of the while loop, exit test included
SplitIteration ==
  /\ chunkPc = "loop"
  /\ startIndex < Len(text)
  /\ \E endIndex \in {FindEndIndex(text, startIndex, targetChunkSize)} :
       \E p \in {PushChunk(text, chunks, startIndex, endIndex)} :
         \E valve \in {SafetyCheck(text, p.chunks, p.startIndex)} :
           /\ chunks' = IF valve
                          THEN Append(p.chunks,
                                      substring(text, p.startIndex, Len(text)))
                          ELSE p.chunks
           /\ startIndex' = p.startIndex
           /\ truncated' = (truncated \/ p.truncated)
           /\ valveFired' = valve
           /\ chunkPc' = IF valve \/ ~(p.startIndex < Len(text))
                           THEN "done" ELSE "loop"
  /\ UNCHANGED <<notC, text, targetChunkSize>>

\* ---- bounded input texts
\* longest text
MaxTextLen == 31
\* most boundary characters (anything but a plain letter) in a text: one per
\* fifteen characters, which lets two boundaries of different rank compete
\* inside one search window while the texts stay enumerable
MaxBreaks == MaxTextLen \div 15
BreakChars == {LF, ".", " "}

RECURSIVE PositionSets(_)
PositionSets(k) ==
  IF k = 0 THEN {{}}
  ELSE LET P == PositionSets(k - 1)
       IN P \cup {S \cup {i} : S \in P, i \in 1..MaxTextLen}

MkText(n, f) == [i \in 1..n |-> IF i \in DOMAIN f THEN f[i] ELSE "a"]

ChunkerIdle ==
  /\ text = <<>>
  /\ chunkPc = "idle"
  /\ targetChunkSize = 0
  /\ chunks = <<>>
  /\ startIndex = 0
  /\ truncated = FALSE
  /\ valveFired = FALSE


\* ------------------------------------------------------------ RequestQueue
\* The queue's mutable fields as one record, so that processQueue and the
\* synchronous head of execRequest can be composed inside one handler.
QState == [queue |-> queue, activeRequests |-> activeRequests,
           since |-> timeSinceLastRequest, pc |-> pc, timer |-> timer,
           started |-> started, sinceStart |-> sinceLastStart,
           gap |-> lastStartGap]

\* app.js 377-379: this.lastRequestTime = Date.now(); requestFn() is invoked
StartRequest(s, t) ==
  [s EXCEPT !.since = 0,
            !.pc = [s.pc EXCEPT ![t] = "running"],
            !.started = Append(s.started, t),
            !.gap = s.sinceStart,
            !.sinceStart = 0]

\* app.js 365-375: the synchronous head of execRequest
ExecRequest(s, t) ==
  LET s1 == [s EXCEPT !.activeRequests = s.activeRequests + 1] IN
  IF s1.since < minInterval
    THEN [s1 EXCEPT !.pc = [s1.pc EXCEPT ![t] = "waiting"],
                    !.timer = [s1.timer EXCEPT ![t] = minInterval - s1.since]]
    ELSE StartRequest(s1, t)

\* mutant: the concurrency test lets one task too many through
processQueue_OffByOne(s) ==
  IF Len(s.queue) = 0 THEN s
  ELSE IF s.activeRequests > maxConcurrent THEN s
  ELSE ExecRequest([s EXCEPT !.queue = Tail(s.queue)], Head(s.queue))

\* app.js 394-400
processQueue(s) ==
  IF Len(s.queue) = 0 THEN s
  ELSE IF s.activeRequests >= maxConcurrent THEN s
  ELSE ExecRequest([s EXCEPT !.queue = Tail(s.queue)], Head(s.queue))

SetQ(s) ==
  /\ queue' = s.queue
  /\ activeRequests' = s.activeRequests
  /\ timeSinceLastRequest' = s.since
  /\ pc' = s.pc
  /\ timer' = s.timer
  /\ started' = s.started
  /\ sinceLastStart' = s.sinceStart
  /\ lastStartGap' = s.gap

\* app.js 363-392: add(requestFn); tasks are numbered in submission order
add(t) ==
  /\ pc[t] = "idle"
  /\ \A u \in Tasks : u < t => pc[u] # "idle"
  /\ SetQ(processQueue([QState EXCEPT !.queue = Append(queue, t),
                                     !.pc = [pc EXCEPT ![t] = "queued"]]))
  /\ UNCHANGED <<notQ, maxConcurrent, minInterval, promise, outcome, chunkResults,
                 arrival, completeScript, response>>

\* app.js 372-379: the interval timer of a waiting task fires
TimerFire(t) ==
  /\ pc[t] = "waiting"
  /\ timer[t] = 0
  /\ SetQ(StartRequest(QState, t))
  /\ UNCHANGED <<notQ, maxConcurrent, minInterval, promise, outcome, chunkResults,
                 arrival, completeScript, response>>

\* mutant: the finally block decrements but does not call processQueue()
Complete_NoAdmit(t, ok) ==
  /\ pc[t] = "running"
  /\ outcome' = [outcome EXCEPT ![t] = IF ok THEN "ok" ELSE "err"]
  /\ promise' = [promise EXCEPT ![t] = IF ok THEN "resolved" ELSE "rejected"]
  /\ chunkResults' = IF ok THEN [chunkResults EXCEPT ![t] = t] ELSE chunkResults
  /\ arrival' = IF ok THEN Append(arrival, t) ELSE arrival
  /\ activeRequests' = activeRequests - 1
  /\ pc' = [pc EXCEPT ![t] = "settled"]
  /\ UNCHANGED <<notQ, maxConcurrent, minInterval, completeScript, response, queue,
                 timeSinceLastRequest, timer, started, sinceLastStart,
                 lastStartGap>>

\* app.js 379-386 with the task body of the chunked fallback: requestFn
\* settles, the promise of add is settled, activeRequests--, processQueue()
Complete(t, ok) ==
  /\ pc[t] = "running"
  /\ outcome' = [outcome EXCEPT ![t] = IF ok THEN "ok" ELSE "err"]
  /\ promise' = [promise EXCEPT ![t] = IF ok THEN "resolved" ELSE "rejected"]
  /\ chunkResults' = IF ok THEN [chunkResults EXCEPT ![t] = t] ELSE chunkResults
  /\ arrival' = IF ok THEN Append(arrival, t) ELSE arrival
  /\ SetQ(processQueue([QState EXCEPT
                          !.activeRequests = activeRequests - 1,
                          !.pc = [pc EXCEPT ![t] = "settled"]]))
  /\ UNCHANGED <<notQ, maxConcurrent, minInterval, completeScript, response>>

\* the clock advances by one tick
Sat(n) == IF n < minInterval THEN n + 1 ELSE n
Tick ==
  /\ timeSinceLastRequest' = Sat(timeSinceLastRequest)
  /\ sinceLastStart' = Sat(sinceLastStart)
  /\ timer' = [t \in Tasks |-> IF timer[t] > 0 THEN timer[t] - 1 ELSE 0]
  /\ \/ timeSinceLastRequest' # timeSinceLastRequest
     \/ sinceLastStart' # sinceLastStart
     \/ timer' # timer
  /\ UNCHANGED <<notQ, maxConcurrent, minInterval, queue, activeRequests, pc,
                 promise, outcome, started, lastStartGap, chunkResults,
                 arrival, completeScript, response>>

\* mutant: results are pushed as they arrive (scripts.push in completion order)
JoinChunks_ByArrival ==
  /\ \A t \in Tasks : promise[t] = "resolved"
  /\ completeScript = <<>>
  /\ response = "none"
  /\ completeScript' = arrival
  /\ UNCHANGED <<notQ, maxConcurrent, minInterval, queue, activeRequests,
                 timeSinceLastRequest, pc, timer, promise, outcome, started,
                 sinceLastStart, lastStartGap, chunkResults, arrival, response>>

\* chunked fallback, after `await Promise.all(chunkPromises)` resolved:
\* completeScript = chunkResults.join("\n\n")
JoinChunks ==
  /\ \A t \in Tasks : promise[t] = "resolved"
  /\ completeScript = <<>>
  /\ response = "none"
  /\ completeScript' = [i \in 1..MaxTasks |-> chunkResults[i]]
  /\ UNCHANGED <<notQ, maxConcurrent, minInterval, queue, activeRequests,
                 timeSinceLastRequest, pc, timer, promise, outcome, started,
                 sinceLastStart, lastStartGap, chunkResults, arrival, response>>

\* chunked fallback: Promise.all rejects on the first rejected chunk promise;
\* the handler's catch answers 500 "Failed to generate podcast"
FailGeneration ==
  /\ \E t \in Tasks : promise[t] = "rejected"
  /\ response = "none"
  /\ response' = "error"
  /\ UNCHANGED <<notQ, maxConcurrent, minInterval, queue, activeRequests,
                 timeSinceLastRequest, pc, timer, promise, outcome, started,
                 sinceLastStart, lastStartGap, chunkResults, arrival,
                 completeScript>>

\* --------------------------------------- POST /api/generate (backend/app.js)
\* processChunkWithGroq: const maxRetries
maxRetries == 5
\* processChunkWithGroq: let retryDelay = 2000 (ms)
BaseRetryDelay == 2000
\* processChunkWithGroq: Math.min(retryDelay * 1.5, 30000) (ms)
RetryDelayCap == 30000
\* delays are kept in quarters of a millisecond: retryDelay * 1.5 stays exact
QuarterMs == 4

\* how a request to the Groq API can end
ApiResults == {"ok", "too_large", "rate_limit", "timeout", "server_error"}
\* the transient upstream failures
Transient == {"rate_limit", "timeout", "server_error"}

ChunkNumbers == 1..MAX_CHUNK_COUNT

\* error.response.headers["retry-after"] of a 429 in seconds, 0: no header
RetryAfterHints == {0, 1, 40}
\* 0.8 + Math.random() * 0.4 in hundredths: from 0.8 up to, not
\* including, 1.2
JitterPercents == {80, 100, 119}

\* app.js 1084-1087 and 1263-1279: the error reaches the handler's outer
\* catch, which answers 500 "Failed to generate podcast" without a script
AnswerFailure(err) ==
  /\ genPc' = "failed"
  /\ lastError' = err
  /\ response' = "error"
  /\ respScript' = <<>>

\* mutant: any failure of the whole-document request falls back to chunking
WholeDocumentCall_AlwaysFallback(r) ==
  /\ genPc = "whole"
  /\ wholeCalls' = wholeCalls + 1
  /\ wholeResult' = r
  /\ requestLog' = Append(requestLog, 0)
  /\ IF r = "ok"
       THEN \* 968-1021: the script is kept
            /\ completeScript' = <<0>>
            /\ genPc' = "scripted"
            /\ UNCHANGED <<nChunks, oversizeLast, lastError, response,
                           respScript>>
       ELSE IF r # "ok"
       THEN \* 1055-1063: chunks = splitTextIntoChunks(text); at most
            \* MAX_CHUNK_COUNT chunks, of which only the remainder appended
            \* by the safety check can exceed GROQ_MAX_CHUNK_CHARS
            /\ \E n \in ChunkNumbers : \E big \in BOOLEAN :
                 /\ big => n = MAX_CHUNK_COUNT
                 /\ nChunks' = n
                 /\ oversizeLast' = big
            /\ genPc' = "enter"
            /\ UNCHANGED <<completeScript, lastError, response, respScript>>
       ELSE \* 1079-1082: not a size error, rethrow
            /\ AnswerFailure(r)
            /\ UNCHANGED <<completeScript, nChunks, oversizeLast>>
  /\ UNCHANGED <<notG, chunkIdx, scripts, retryCount, retryDelay, retryAfter,
                 waitTime, attempts, rateLimited>>

\* app.js 929-1083: the whole-document request and what its result leads to
WholeDocumentCall(r) ==
  /\ genPc = "whole"
  /\ wholeCalls' = wholeCalls + 1
  /\ wholeResult' = r
  /\ requestLog' = Append(requestLog, 0)
  /\ IF r = "ok"
       THEN \* 968-1021: the script is kept
            /\ completeScript' = <<0>>
            /\ genPc' = "scripted"
            /\ UNCHANGED <<nChunks, oversizeLast, lastError, response,
                           respScript>>
       ELSE IF r = "too_large"
       THEN \* 1055-1063: chunks = splitTextIntoChunks(text); at most
            \* MAX_CHUNK_COUNT chunks, of which only the remainder appended
            \* by the safety check can exceed GROQ_MAX_CHUNK_CHARS
            /\ \E n \in ChunkNumbers : \E big \in BOOLEAN :
                 /\ big => n = MAX_CHUNK_COUNT
                 /\ nChunks' = n
                 /\ oversizeLast' = big
            /\ genPc' = "enter"
            /\ UNCHANGED <<completeScript, lastError, response, respScript>>
       ELSE \* 1079-1082: not a size error, rethrow
            /\ AnswerFailure(r)
            /\ UNCHANGED <<completeScript, nChunks, oversizeLast>>
  /\ UNCHANGED <<notG, chunkIdx, scripts, retryCount, retryDelay, retryAfter,
                 waitTime, attempts, rateLimited>>

\* app.js 404-420 and 516-519: processChunkWithGroq is entered for chunk i
EnterChunk ==
  /\ genPc = "enter"
  /\ IF oversizeLast /\ chunkIdx + 1 = nChunks
       THEN \* 413-420: refuses the chunk
            /\ AnswerFailure("chunk_too_large")
            /\ UNCHANGED <<retryCount, retryDelay, rateLimited>>
       ELSE /\ retryCount' = 0
            /\ retryDelay' = BaseRetryDelay * QuarterMs
            /\ rateLimited' = 0
            /\ genPc' = "attempt"
            /\ UNCHANGED <<lastError, response, respScript>>
  /\ UNCHANGED <<notG, completeScript, wholeCalls, wholeResult, nChunks,
                 oversizeLast, chunkIdx, scripts, retryAfter, waitTime,
                 attempts, requestLog>>

\* app.js 521-596: one pass of the retry loop up to its first await of a
\* timer; on success app.js 1076-1078 pushes the script and moves on
ChunkAttempt(r) ==
  /\ genPc = "attempt"
  /\ attempts' = [attempts EXCEPT ![chunkIdx + 1] = @ + 1]
  /\ requestLog' = Append(requestLog, chunkIdx + 1)
  /\ IF r = "ok"
       THEN /\ scripts' = Append(scripts, chunkIdx + 1)
            /\ chunkIdx' = chunkIdx + 1
            /\ IF chunkIdx + 1 < nChunks
                 THEN genPc' = "enter" /\ UNCHANGED completeScript
                 ELSE genPc' = "scripted" /\ completeScript' = scripts'
            /\ UNCHANGED <<retryCount, retryAfter, waitTime, rateLimited,
                           lastError, response, respScript>>
       ELSE /\ retryCount' = retryCount + 1
            /\ UNCHANGED <<scripts, chunkIdx, completeScript>>
            /\ IF r = "rate_limit"
                 THEN \* 567-581: waits whatever retryCount is, for the
                      \* retry-after header or else retryDelay, times
                      \* 0.8 + Math.random() * 0.4
                      /\ genPc' = "wait429"
                      /\ rateLimited' = rateLimited + 1
                      /\ \E h \in RetryAfterHints, j \in JitterPercents :
                           /\ retryAfter' = h
                           /\ waitTime' =
                                ((IF h # 0 THEN h * 1000 * QuarterMs
                                  ELSE retryDelay) * j) \div 100
                      /\ UNCHANGED <<lastError, response, respScript>>
                 ELSE IF retryCount + 1 <= maxRetries
                 THEN \* 583-590
                      /\ genPc' = "wait"
                      /\ waitTime' = retryDelay
                      /\ UNCHANGED <<retryAfter, rateLimited, lastError,
                                     response, respScript>>
                 ELSE \* 592-595: throw error
                      /\ AnswerFailure(r)
                      /\ UNCHANGED <<retryAfter, waitTime, rateLimited>>
  /\ UNCHANGED <<notG, wholeCalls, wholeResult, nChunks, oversizeLast,
                 retryDelay>>

\* mutant: the loop does not test retryCount after a 429
RateLimitWaitOver_NoCeiling ==
  /\ genPc = "wait429"
  /\ retryDelay' = Min((retryDelay * 3) \div 2, RetryDelayCap * QuarterMs)
  /\ retryAfter' = 0
  /\ waitTime' = 0
  /\ IF retryCount <= retryCount
       THEN genPc' = "attempt" /\ UNCHANGED <<lastError, response, respScript>>
       ELSE AnswerFailure("retries_exhausted")
  /\ UNCHANGED <<notG, completeScript, wholeCalls, wholeResult, nChunks,
                 oversizeLast, chunkIdx, scripts, retryCount, attempts,
                 rateLimited, requestLog>>

\* app.js 581-582 and 521, 599-601: the wait after a 429 is over
RateLimitWaitOver ==
  /\ genPc = "wait429"
  /\ retryDelay' = Min((retryDelay * 3) \div 2, RetryDelayCap * QuarterMs)
  /\ retryAfter' = 0
  /\ waitTime' = 0
  /\ IF retryCount <= maxRetries
       THEN genPc' = "attempt" /\ UNCHANGED <<lastError, response, respScript>>
       ELSE AnswerFailure("retries_exhausted")
  /\ UNCHANGED <<notG, completeScript, wholeCalls, wholeResult, nChunks,
                 oversizeLast, chunkIdx, scripts, retryCount, attempts,
                 rateLimited, requestLog>>

\* app.js 590-591: the wait after another error is over
BackoffWaitOver ==
  /\ genPc = "wait"
  /\ retryDelay' = retryDelay * 2
  /\ waitTime' = 0
  /\ genPc' = "attempt"
  /\ UNCHANGED <<notG, completeScript, response, wholeCalls, wholeResult,
                 nChunks, oversizeLast, chunkIdx, scripts, retryCount,
                 retryAfter, attempts, rateLimited, lastError, requestLog,
                 respScript>>

GenFresh ==
  /\ genPc = "whole"
  /\ wholeCalls = 0
  /\ wholeResult = "none"
  /\ nChunks = 0
  /\ oversizeLast = FALSE
  /\ chunkIdx = 0
  /\ scripts = <<>>
  /\ retryCount = 0
  /\ retryDelay = 0
  /\ retryAfter = 0
  /\ waitTime = 0
  /\ attempts = [c \in ChunkNumbers |-> 0]
  /\ rateLimited = 0
  /\ lastError = "none"
  /\ requestLog = <<>>
  /\ respScript = <<>>

\* no generation request in progress
GenIdle ==
  /\ genPc = "idle"
  /\ wholeCalls = 0
  /\ wholeResult = "none"
  /\ nChunks = 0
  /\ oversizeLast = FALSE
  /\ chunkIdx = 0
  /\ scripts = <<>>
  /\ retryCount = 0
  /\ retryDelay = 0
  /\ retryAfter = 0
  /\ waitTime = 0
  /\ attempts = [c \in ChunkNumbers |-> 0]
  /\ rateLimited = 0
  /\ lastError = "none"
  /\ requestLog = <<>>
  /\ respScript = <<>>

\* ------------------------------------------------------- lines of a script
\* A line is a sequence of tokens; a token is a run of characters that the
\* tests of the handler do not look into: "ashley" and "host a" are matched
\* by /ashley/i and /host\s*a/i, "ric" and "w" are other words, "[pause]" is
\* the pause marker, the rest are the characters themselves.
TrimStart(l) == IF l # <<>> /\ Head(l) = " " THEN Tail(l) ELSE l

TrimEnd(l) ==
  IF l # <<>> /\ l[Len(l)] = " " THEN SubSeq(l, 1, Len(l) - 1) ELSE l

RECURSIVE trim(_)
\* String.prototype.trim
trim(l) ==
  LET t == TrimEnd(TrimStart(l)) IN IF t = l THEN l ELSE trim(t)

\* line.startsWith("[") && line.endsWith("]")
StageDirection(l) ==
  /\ l # <<>>
  /\ Head(l) \in {"[", "[pause]"}
  /\ l[Len(l)] \in {"]", "[pause]"}

RECURSIVE optimizeScriptForTTS(_)
\* optimizeScriptForTTS on the lines of the script; line.split(":", 1) never
\* has two parts, so every kept line is pushed as trimmed and nothing else
\* is done to it
optimizeScriptForTTS(scriptLines) ==
  IF scriptLines = <<>> THEN <<>>
  ELSE LET line == trim(Head(scriptLines))
           rest == optimizeScriptForTTS(Tail(scriptLines))
       IN  IF line = <<>> THEN rest
           ELSE IF StageDirection(line) THEN rest
           ELSE <<line>> \o rest

\* optimizedScript.split("\n").filter((line) => line.trim())
SplitLines(scriptLines) == SelectSeq(scriptLines, LAMBDA l : trim(l) # <<>>)

\* index of the first ":" of the line, 0 if there is none
FirstColon(l) ==
  IF \E k \in 1..Len(l) : l[k] = ":"
  THEN CHOOSE k \in 1..Len(l) : l[k] = ":" /\ \A j \in 1..(k - 1) : l[j] # ":"
  ELSE 0

\* line.match(/^([^:]+?):\s*(.*)/): the groups, <<>> for null
speakerMatch(l) ==
  LET p == FirstColon(l)
  IN  IF p >= 2 THEN <<SubSeq(l, 1, p - 1), SubSeq(l, p + 1, Len(l))>>
      ELSE <<>>

Speaker(l, idx) ==
  IF speakerMatch(l) # <<>> THEN trim(speakerMatch(l)[1])
  ELSE IF idx % 2 = 0 THEN <<"ashley">> ELSE <<"ric">>

Text(l, idx) ==
  IF speakerMatch(l) # <<>> THEN trim(speakerMatch(l)[2]) ELSE trim(l)

\* /ashley/i.test(speaker) || /host\s*a/i.test(speaker)
isHostA(speaker) ==
  \E k \in 1..Len(speaker) : speaker[k] \in {"ashley", "host a"}

VOICE_MAPPINGS ==
  [standard   |-> [Ashley |-> "Joanna",   Ric |-> "Matthew"],
   neural     |-> [Ashley |-> "Danielle", Ric |-> "Stephen"],
   generative |-> [Ashley |-> "Danielle", Ric |-> "Matthew"]]

\* values of process.env.TTS_ENGINE; "" is unset, "other" any unknown name
Engines == {"", "standard", "neural", "generative", "other"}

getTtsEngine(env) == IF env = "" THEN "standard" ELSE env

\* getVoices without the fallback to the standard voices
getVoices_NoFallback(env) ==
  IF getTtsEngine(env) \in DOMAIN VOICE_MAPPINGS
  THEN VOICE_MAPPINGS[getTtsEngine(env)]
  ELSE [Ashley |-> "undefined", Ric |-> "undefined"]

getVoices(env) ==
  IF getTtsEngine(env) \in DOMAIN VOICE_MAPPINGS
  THEN VOICE_MAPPINGS[getTtsEngine(env)]
  ELSE VOICE_MAPPINGS["standard"]

VoiceFor(speaker, voiceMapping) ==
  IF isHostA(speaker) THEN voiceMapping.Ashley ELSE voiceMapping.Ric

\* pauseLength in tenths of a second, 0 when the line gets no pause
PauseLength(txt) ==
  LET last == IF txt = <<>> THEN "" ELSE txt[Len(txt)]
  IN  IF last = "." THEN 6
      ELSE IF last \in {"!", "?"} THEN 7
      ELSE IF \E k \in 1..Len(txt) : txt[k] = "[pause]" THEN 4
      ELSE 0

\* ------------------------------------- POST /api/generate: the audio stage
\* requests the server handles at the same time
Requests == {1, 2}
\* lines of all the requests together
MaxLines == 3

\* lines the synthesis loop meets: a sentence, a question, a line without a
\* speaker prefix or end punctuation, a line holding the pause marker
TtsLines ==
  { <<"ashley", ":", " ", "w", ".">>,
    <<"ric", ":", " ", "w", "?">>,
    <<"w">>,
    <<"ashley", ":", " ", "w", " ", "[pause]", " ", "w">> }

\* path.join(tempDir, `line_${i}.mp3`), path.join(tempDir, `pause_${i}.mp3`)
\* and path.join(outputDir, `podcast_${timestamp}.mp3`); the timestamps of
\* two requests are taken as different
LinePath(idx) == <<"line", idx>>
PausePath(idx) == <<"pause", idx>>
OutPath(r) == <<"podcast", r>>

TempPaths ==
  {LinePath(k) : k \in 0..MaxLines} \cup {PausePath(k) : k \in 0..MaxLines}

EmptyDisk == [q \in {} |-> <<>>]
WriteFile(d, p, c) == [q \in DOMAIN d \cup {p} |-> IF q = p THEN c ELSE d[q]]
RemoveFile(d, p) == [q \in DOMAIN d \ {p} |-> d[q]]

\* the audio of one segment, named by who produced it
Segment(r, kind, idx) == [req |-> r, kind |-> kind, line |-> idx]

\* how a call of the Polly API ends
PollyOutcomes == {"audio", "AccessDenied", "error"}

\* synthesizeSpeech of aws_polly_tts.js by the outcome of the Polly call:
\* true, false or the access_denied object; the budget check is guarded by
\* monthlyBudgetLimit && false
synthesizeSpeech(polly, monthlyBudgetLimit) ==
  IF monthlyBudgetLimit /\ FALSE THEN "budget_exceeded"
  ELSE IF polly = "audio" THEN "true"
  ELSE IF polly = "AccessDenied" THEN "access_denied"
  ELSE "false"

RECURSIVE ConcatExisting(_, _)
\* the contents of the listed files that exist, in list order
ConcatExisting(files, d) ==
  IF files = <<>> THEN <<>>
  ELSE (IF Head(files) \in DOMAIN d THEN d[Head(files)] ELSE <<>>)
       \o ConcatExisting(Tail(files), d)

Range(s) == {s[k] : k \in 1..Len(s)}

\* lines 1137-1152: lines, audioSegments, directories, voices
StartTts(r, n) ==
  /\ ttsPc[r] = "idle"
  /\ \A o \in Requests \ {r} : n + nLines[o] <= MaxLines
  /\ nLines' = [nLines EXCEPT ![r] = n]
  /\ ttsPc' = [ttsPc EXCEPT ![r] = IF n = 0 THEN "combine" ELSE "loop"]
  /\ UNCHANGED <<lineI, pauseLength, audioSegments, combinedSuccess,
                 repairSuccess, removed, ttsResponse, synthCalls,
                 failedLines, budgetHitAt, produced, assembled>>
  /\ UNCHANGED <<hvars, notT>>

\* end of one loop iteration: i++ and the loop test
NextLine(r) ==
  /\ lineI' = [lineI EXCEPT ![r] = @ + 1]
  /\ ttsPc' = [ttsPc EXCEPT ![r] =
                 IF lineI[r] + 1 < nLines[r] THEN "loop" ELSE "combine"]

\* SynthesizeLine with a failed line ending the request
SynthesizeLine_FailFast(r, line, polly, monthlyBudgetLimit) ==
  /\ ttsPc[r] = "loop"
  /\ (polly = "AccessDenied") = budgetExhausted
  /\ LET idx == lineI[r]
         txt == Text(line, idx)
         result == synthesizeSpeech(polly, monthlyBudgetLimit)
         tempFile == LinePath(idx)
     IN  /\ synthCalls' = [synthCalls EXCEPT ![r] = Append(@, idx)]
         /\ budgetHitAt' = [budgetHitAt EXCEPT ![r] =
                              IF budgetExhausted /\ @ = -1 THEN idx ELSE @]
         /\ IF result = "true"
            THEN /\ disk' = WriteFile(disk, tempFile,
                                      <<Segment(r, "speech", idx)>>)
                 /\ audioSegments' =
                      [audioSegments EXCEPT ![r] = Append(@, tempFile)]
                 /\ produced' = [produced EXCEPT ![r] =
                                   Append(@, Segment(r, "speech", idx))]
                 /\ IF PauseLength(txt) > 0
                    THEN /\ pauseLength' =
                              [pauseLength EXCEPT ![r] = PauseLength(txt)]
                         /\ ttsPc' = [ttsPc EXCEPT ![r] = "pause"]
                         /\ UNCHANGED lineI
                    ELSE /\ NextLine(r)
                         /\ UNCHANGED pauseLength
                 /\ UNCHANGED <<failedLines, ttsResponse>>
            ELSE /\ failedLines' = [failedLines EXCEPT ![r] = @ \cup {idx}]
                 /\ ttsResponse' = [ttsResponse EXCEPT ![r] = "error"]
                 /\ ttsPc' = [ttsPc EXCEPT ![r] = "done"]
                 /\ UNCHANGED <<disk, audioSegments, produced, pauseLength,
                                lineI>>
  /\ UNCHANGED <<nLines, combinedSuccess, repairSuccess, removed, assembled>>
  /\ UNCHANGED <<ffmpegAvailable, budgetExhausted, notT>>

\* one iteration of the synthesis loop up to the result of synthesizeSpeech
SynthesizeLine(r, line, polly, monthlyBudgetLimit) ==
  /\ ttsPc[r] = "loop"
  /\ (polly = "AccessDenied") = budgetExhausted
  /\ LET idx == lineI[r]
         txt == Text(line, idx)
         result == synthesizeSpeech(polly, monthlyBudgetLimit)
         tempFile == LinePath(idx)
     IN  /\ synthCalls' = [synthCalls EXCEPT ![r] = Append(@, idx)]
         /\ budgetHitAt' = [budgetHitAt EXCEPT ![r] =
                              IF budgetExhausted /\ @ = -1 THEN idx ELSE @]
         /\ IF result = "true"
            THEN /\ disk' = WriteFile(disk, tempFile,
                                      <<Segment(r, "speech", idx)>>)
                 /\ audioSegments' =
                      [audioSegments EXCEPT ![r] = Append(@, tempFile)]
                 /\ produced' = [produced EXCEPT ![r] =
                                   Append(@, Segment(r, "speech", idx))]
                 /\ IF PauseLength(txt) > 0
                    THEN /\ pauseLength' =
                              [pauseLength EXCEPT ![r] = PauseLength(txt)]
                         /\ ttsPc' = [ttsPc EXCEPT ![r] = "pause"]
                         /\ UNCHANGED lineI
                    ELSE /\ NextLine(r)
                         /\ UNCHANGED pauseLength
                 /\ UNCHANGED <<failedLines, ttsResponse>>
            ELSE IF result = "budget_exceeded"
            THEN /\ ttsResponse' = [ttsResponse EXCEPT ![r] = "budget_exceeded"]
                 /\ ttsPc' = [ttsPc EXCEPT ![r] = "done"]
                 /\ UNCHANGED <<disk, audioSegments, produced, pauseLength,
                                lineI, failedLines>>
            ELSE /\ failedLines' = [failedLines EXCEPT ![r] = @ \cup {idx}]
                 /\ NextLine(r)
                 /\ UNCHANGED <<disk, audioSegments, produced, pauseLength,
                                ttsResponse>>
  /\ UNCHANGED <<nLines, combinedSuccess, repairSuccess, removed, assembled>>
  /\ UNCHANGED <<ffmpegAvailable, budgetExhausted, notT>>

\* await createSilence(pauseFile, pauseLength); audioSegments.push(pauseFile):
\* the result of createSilence is not looked at.  ffmpeg runs without -y, so
\* it does not write over a file that is there.
CreatePause(r, ok) ==
  /\ ttsPc[r] = "pause"
  /\ LET idx == lineI[r]
         pauseFile == PausePath(idx)
         created == ok /\ (ffmpegAvailable => pauseFile \notin DOMAIN disk)
     IN  /\ IF created
            THEN /\ disk' = WriteFile(disk, pauseFile,
                                      <<Segment(r, "pause", idx)>>)
                 /\ produced' = [produced EXCEPT ![r] =
                                   Append(@, Segment(r, "pause", idx))]
            ELSE UNCHANGED <<disk, produced>>
         /\ audioSegments' = [audioSegments EXCEPT ![r] = Append(@, pauseFile)]
  /\ pauseLength' = [pauseLength EXCEPT ![r] = 0]
  /\ NextLine(r)
  /\ UNCHANGED <<nLines, combinedSuccess, repairSuccess, removed, ttsResponse,
                 synthCalls, failedLines, budgetHitAt, assembled>>
  /\ UNCHANGED <<ffmpegAvailable, budgetExhausted, notT>>

\* combinedSuccess = await combineAudioFiles(audioSegments, combinedFile) and
\* the branch on it: an empty list throws into the catch of the handler
\* (500 "Failed to generate podcast"); ffmpeg concatenates the listed files
\* and fails when one is missing; the fallback combiner skips missing files;
\* false answers 500 "Failed to generate podcast audio" before the cleanup
Combine(r, io) ==
  /\ ttsPc[r] = "combine"
  /\ LET files == audioSegments[r]
         content == ConcatExisting(files, disk)
         success == IF ffmpegAvailable
                    THEN io /\ Range(files) \subseteq DOMAIN disk
                    ELSE io
     IN  IF files = <<>>
         THEN /\ ttsResponse' = [ttsResponse EXCEPT ![r] = "error"]
              /\ ttsPc' = [ttsPc EXCEPT ![r] = "done"]
              /\ UNCHANGED <<disk, assembled, combinedSuccess>>
         ELSE IF success
         THEN /\ disk' = WriteFile(disk, OutPath(r), content)
              /\ assembled' = [assembled EXCEPT ![r] = content]
              /\ combinedSuccess' = [combinedSuccess EXCEPT ![r] = "true"]
              /\ ttsPc' = [ttsPc EXCEPT ![r] = "repair"]
              /\ UNCHANGED ttsResponse
         ELSE /\ combinedSuccess' = [combinedSuccess EXCEPT ![r] = "false"]
              /\ ttsResponse' = [ttsResponse EXCEPT ![r] = "audio_failed"]
              /\ ttsPc' = [ttsPc EXCEPT ![r] = "done"]
              /\ UNCHANGED <<disk, assembled>>
  /\ UNCHANGED <<nLines, lineI, pauseLength, audioSegments, repairSuccess,
                 removed, synthCalls, failedLines, budgetHitAt, produced>>
  /\ UNCHANGED <<ffmpegAvailable, budgetExhausted, notT>>

\* how the ffmpeg run of repairMp3File ends: the re-encoded file is written
\* and is large enough, ffmpeg fails, or the file it leaves is below 1024
\* bytes
RepairOutcomes == {"repaired", "ffmpeg_error", "too_small"}

\* `${outputFile}.repaired.mp3`
RepairedPath(r) == <<"repaired", r>>

\* the content of a file after the re-encoding with libmp3lame
Reencode(c) ==
  [k \in 1..Len(c) |->
     [c[k] EXCEPT !.kind = IF @ = "speech" THEN "speech_lame"
                           ELSE IF @ = "pause" THEN "pause_lame" ELSE @]]

\* repairMp3File with ffmpeg writing to outputFile itself
Repair_InPlace(r, ended) ==
  /\ ttsPc[r] = "repair"
  /\ IF ~ffmpegAvailable
       THEN /\ repairSuccess' = [repairSuccess EXCEPT ![r] = "false"]
            /\ UNCHANGED disk
       ELSE IF ended = "repaired"
       THEN /\ disk' = WriteFile(disk, OutPath(r), Reencode(disk[OutPath(r)]))
            /\ repairSuccess' = [repairSuccess EXCEPT ![r] = "true"]
       ELSE /\ disk' = WriteFile(disk, OutPath(r), <<>>)
            /\ repairSuccess' = [repairSuccess EXCEPT ![r] = "false"]
  /\ ttsPc' = [ttsPc EXCEPT ![r] = "cleanup"]
  /\ UNCHANGED <<nLines, lineI, pauseLength, audioSegments, combinedSuccess,
                 removed, ttsResponse, synthCalls, failedLines, budgetHitAt,
                 produced, assembled>>
  /\ UNCHANGED <<ffmpegAvailable, budgetExhausted, notT>>

\* repairSuccess = await repairMp3File(combinedFile, combinedFile) and the
\* branch on it: without ffmpeg false at once; ffmpeg re-encodes into
\* RepairedPath, which is moved over the combined file when it is large
\* enough and left behind when it is not; false only logs a warning.
\* fs.move is taken to replace the file or to leave it as it was.
Repair(r, ended) ==
  /\ ttsPc[r] = "repair"
  /\ IF ~ffmpegAvailable \/ ended = "ffmpeg_error"
       THEN /\ repairSuccess' = [repairSuccess EXCEPT ![r] = "false"]
            /\ UNCHANGED disk
       ELSE IF ended = "too_small"
       THEN /\ disk' = WriteFile(disk, RepairedPath(r), <<>>)
            /\ repairSuccess' = [repairSuccess EXCEPT ![r] = "false"]
       ELSE /\ disk' = WriteFile(disk, OutPath(r), Reencode(disk[OutPath(r)]))
            /\ repairSuccess' = [repairSuccess EXCEPT ![r] = "true"]
  /\ ttsPc' = [ttsPc EXCEPT ![r] = "cleanup"]
  /\ UNCHANGED <<nLines, lineI, pauseLength, audioSegments, combinedSuccess,
                 removed, ttsResponse, synthCalls, failedLines, budgetHitAt,
                 produced, assembled>>
  /\ UNCHANGED <<ffmpegAvailable, budgetExhausted, notT>>

\* one iteration of: for (const file of audioSegments) await fs.remove(file);
\* after the last one res.json({ script, audioUrl })
RemoveSegment(r) ==
  /\ ttsPc[r] = "cleanup"
  /\ LET k == removed[r] + 1
     IN  /\ disk' = RemoveFile(disk, audioSegments[r][k])
         /\ removed' = [removed EXCEPT ![r] = k]
         /\ IF k = Len(audioSegments[r])
            THEN /\ ttsResponse' = [ttsResponse EXCEPT ![r] = "ok"]
                 /\ ttsPc' = [ttsPc EXCEPT ![r] = "done"]
            ELSE UNCHANGED <<ttsResponse, ttsPc>>
  /\ UNCHANGED <<nLines, lineI, pauseLength, audioSegments, combinedSuccess,
                 repairSuccess, synthCalls, failedLines, budgetHitAt,
                 produced, assembled>>
  /\ UNCHANGED <<ffmpegAvailable, budgetExhausted, notT>>

\* README, Budget Controls: when usage reaches the threshold an IAM policy
\* restricts further Polly access
BudgetActionFires ==
  /\ ~budgetExhausted
  /\ budgetExhausted' = TRUE
  /\ UNCHANGED <<ffmpegAvailable, disk, tvars, notT>>

\* no request is in the audio stage
RequestsIdle ==
  /\ ttsPc = [r \in Requests |-> "idle"]
  /\ nLines = [r \in Requests |-> 0]
  /\ lineI = [r \in Requests |-> 0]
  /\ pauseLength = [r \in Requests |-> 0]
  /\ audioSegments = [r \in Requests |-> <<>>]
  /\ combinedSuccess = [r \in Requests |-> "none"]
  /\ repairSuccess = [r \in Requests |-> "none"]
  /\ removed = [r \in Requests |-> 0]
  /\ ttsResponse = [r \in Requests |-> "none"]
  /\ synthCalls = [r \in Requests |-> <<>>]
  /\ failedLines = [r \in Requests |-> {}]
  /\ budgetHitAt = [r \in Requests |-> -1]
  /\ produced = [r \in Requests |-> <<>>]
  /\ assembled = [r \in Requests |-> <<>>]

TtsIdle ==
  /\ ffmpegAvailable = TRUE
  /\ budgetExhausted = FALSE
  /\ disk = EmptyDisk
  /\ RequestsIdle

\* ------------------------------------------ trimScriptPreservingStructure
TARGET_PODCAST_DURATION == 12
WORDS_PER_MINUTE == 214

calculateTargetWordCount(durationMinutes) == durationMinutes * WORDS_PER_MINUTE

\* A line of a script is told by what the trimming looks at: whether it is
\* empty, how many words countWords finds in it, and whether it holds one of
\* the conclusionPatterns.
EmptyLine == [kind |-> "empty", words |-> 0, closing |-> FALSE]
TextLine(w, c) == [kind |-> "text", words |-> w, closing |-> c]

\* countWords of a script: the words of its lines, a word never spanning lines
RECURSIVE countWords(_)
countWords(lines) ==
  IF lines = <<>> THEN 0 ELSE Head(lines).words + countWords(Tail(lines))

\* the four lines pushed when the kept lines have no conclusion; the last
\* one holds "thanks for joining"
ClosingExchange ==
  <<EmptyLine, TextLine(22, FALSE), TextLine(29, FALSE), TextLine(20, FALSE),
    TextLine(17, TRUE)>>

RECURSIVE TrimSections(_, _, _, _, _, _)
\* the three loops over intro, middle and conclusion from 0-based index i on,
\* with wordsAdded words kept so far
TrimSections(lines, i, wordsAdded, introLines, conclStart, maxMiddle) ==
  IF i >= Len(lines) THEN <<>>
  ELSE LET l == lines[i + 1]
           middle == i >= introLines /\ i < conclStart
           keep == IF middle
                   THEN l.kind = "text" /\ wordsAdded + l.words <= maxMiddle
                   ELSE l.kind = "text"
       IN  <<IF keep THEN l ELSE EmptyLine>> \o
           TrimSections(lines, i + 1,
                        IF keep THEN wordsAdded + l.words ELSE wordsAdded,
                        introLines, conclStart, maxMiddle)

\* resultLines.slice(-5) holds one of the conclusionPatterns
hasConclusion(resultLines) ==
  \E k \in Max(1, Len(resultLines) - 4)..Len(resultLines) :
     resultLines[k].closing

\* trimScriptPreservingStructure with the early return dropped
trimScriptPreservingStructure_NoEarlyReturn(lines, maxWords) ==
  LET introLines == Min(10, (Len(lines) * 15) \div 100)
      conclusionStart == Max(Len(lines) - 15, (Len(lines) * 85) \div 100)
      maxMiddleWords == (maxWords * 7) \div 10
      resultLines == TrimSections(lines, 0, 0, introLines, conclusionStart,
                                  maxMiddleWords)
  IN  IF hasConclusion(resultLines) THEN resultLines
      ELSE resultLines \o ClosingExchange

trimScriptPreservingStructure(lines, maxWords) ==
  IF countWords(lines) <= maxWords THEN lines
  ELSE LET introLines == Min(10, (Len(lines) * 15) \div 100)
           conclusionStart == Max(Len(lines) - 15, (Len(lines) * 85) \div 100)
           maxMiddleWords == (maxWords * 7) \div 10
           resultLines == TrimSections(lines, 0, 0, introLines,
                                       conclusionStart, maxMiddleWords)
       IN  IF hasConclusion(resultLines) THEN resultLines
           ELSE resultLines \o ClosingExchange

\* longest script the trimming is applied to, in lines
MaxScriptLines == 7

\* lines of the scripts: an empty line, a long line with and without a
\* conclusion pattern, a line that alone is longer than three times the
\* target
ScriptLines ==
  {EmptyLine, TextLine(1300, FALSE), TextLine(1300, TRUE),
   TextLine(7800, FALSE)}

\* values of maxWordCount the function is called with
WordLimits == {calculateTargetWordCount(TARGET_PODCAST_DURATION * 2), 1300, 0}

\* a call trimScriptPreservingStructure(script, limit)
TrimCall(limit) ==
  /\ trimPc = "call"
  /\ maxWordCount' = limit
  /\ trimResult' = trimScriptPreservingStructure(script, limit)
  /\ trimPc' = "returned"
  /\ UNCHANGED <<script, bvars, vvars, notP>>

\* the handler after a successful whole-document generation: scripts
\* estimated above three times the target are trimmed to twice the target
AcceptWholeScript ==
  /\ trimPc = "call"
  /\ LET safeMaxWords == calculateTargetWordCount(TARGET_PODCAST_DURATION * 2)
     IN  IF countWords(script) > TARGET_PODCAST_DURATION * 3 * WORDS_PER_MINUTE
         THEN /\ maxWordCount' = safeMaxWords
              /\ trimResult' = trimScriptPreservingStructure(script, safeMaxWords)
         ELSE /\ maxWordCount' = maxWordCount
              /\ trimResult' = script
  /\ trimPc' = "accepted"
  /\ UNCHANGED <<script, bvars, vvars, notP>>

TrimIdle ==
  /\ trimPc = "idle"
  /\ script = <<>>
  /\ maxWordCount = 0
  /\ trimResult = <<>>

\* ------------------------------- processChunkWithGroq: the word budget
\* Math.floor(x * 1.15), Math.floor(x * 1.05), Math.floor(x * 0.9): for the
\* values of x met here the double product floors to the integer quotient
Floor115(x) == (x * 115) \div 100
Floor105(x) == (x * 105) \div 100
Floor90(x) == (x * 9) \div 10

baseWordsPerChunk(total, n) == total \div n

\* the allocation with the first and last chunk treated as first-half
\* middle chunks
ChunkWordCount_NoBonus(total, n, number) ==
  LET base == baseWordsPerChunk(total, n)
  IN  IF number <= CeilDiv(n, 2) THEN Floor105(base) ELSE Floor90(base)

\* chunkWordCount of chunk number of n; isFirstChunk is number = 1 and
\* isLastChunk is number = n at the call site
ChunkWordCount(total, n, number) ==
  LET base == baseWordsPerChunk(total, n)
      isFirstChunk == number = 1
      isLastChunk == number = n
  IN  IF isFirstChunk THEN Floor115(base)
      ELSE IF isLastChunk THEN Floor115(base)
      ELSE IF number <= CeilDiv(n, 2) THEN Floor105(base)
      ELSE Floor90(base)

\* largest small targetWordCount tried next to the handler's own
MaxTargetWords == 40
\* largest chunks.length
MaxTotalChunks == 13

\* the handler's targetWordCount and the small ones
TargetWordCounts ==
  (0..MaxTargetWords) \cup {calculateTargetWordCount(TARGET_PODCAST_DURATION)}

AllocateWords ==
  /\ budgetPc = "call"
  /\ chunkWordCount' = ChunkWordCount(targetWordCount, totalChunks, chunkNumber)
  /\ budgetPc' = "done"
  /\ UNCHANGED <<targetWordCount, totalChunks, chunkNumber, svars, vvars,
                 notP>>

BudgetIdle ==
  /\ budgetPc = "idle"
  /\ targetWordCount = 0
  /\ totalChunks = 1
  /\ chunkNumber = 1
  /\ chunkWordCount = 0

\* ------------------------------- a line from completeScript to Polly
\* longest line, in tokens
MaxLineLen == 4

Tokens == {"ashley", "host a", "ric", "w", ":", "[", "]", " "}

RawLines == UNION {[1..n -> Tokens] : n \in 0..MaxLineLen}

NoSynthArgs == [text |-> <<>>, voice |-> "none"]

\* optimizedScript = optimizeScriptForTTS(completeScript) and
\* lines = optimizedScript.split("\n").filter(...), for the one line
OptimizeForTts ==
  /\ voicePc = "script"
  /\ \E lines \in {SplitLines(optimizeScriptForTTS(<<rawLine>>))} :
        IF lines = <<>>
        THEN /\ voicePc' = "dropped"
             /\ optLine' = <<>>
        ELSE /\ voicePc' = "line"
             /\ optLine' = lines[1]
  /\ UNCHANGED <<ttsEngine, rawLine, lineNo, synthArgs, svars, bvars, notP>>

\* the loop body for the line up to the call synthesizeSpeech(text, voice,
\* tempFile)
SynthesizeCall ==
  /\ voicePc = "line"
  /\ synthArgs' = [text |-> Text(optLine, lineNo),
                   voice |-> VoiceFor(Speaker(optLine, lineNo),
                                      getVoices(ttsEngine))]
  /\ voicePc' = "synthesized"
  /\ UNCHANGED <<ttsEngine, rawLine, lineNo, optLine, svars, bvars, notP>>

VoiceIdle ==
  /\ voicePc = "idle"
  /\ ttsEngine = ""
  /\ rawLine = <<>>
  /\ lineNo = 0
  /\ optLine = <<>>
  /\ synthArgs = NoSynthArgs

\* ----------------------- POST /api/generate: the script after generation
\* Lines are sequences of tokens as above; a word of a phrase is a token and
\* the words of a phrase are separated by " " tokens.
RECURSIVE Spaced(_)
Spaced(ws) ==
  IF Len(ws) <= 1 THEN ws ELSE <<Head(ws), " ">> \o Spaced(Tail(ws))

\* pattern.test(line) for a pattern without metacharacters
Contains(l, pat) ==
  \E k \in 1..(Len(l) - Len(pat) + 1) : SubSeq(l, k, k + Len(pat) - 1) = pat

\* analyzeScript: const subscriptionPatterns
subscriptionPatterns ==
  { <<"subscribe">>, Spaced(<<"next", "episode">>),
    Spaced(<<"tune", "in", "next">>), Spaced(<<"follow", "us">>),
    Spaced(<<"like", "and", "share">>) }

\* removeSubscriptionLanguage: const subscriptionPatterns
removalPatterns ==
  { Spaced(<<"subscribe", "to", "our", "podcast">>),
    Spaced(<<"don't", "forget", "to", "subscribe">>),
    Spaced(<<"hit", "that", "subscribe", "button">>),
    Spaced(<<"tune", "in", "next", "time">>),
    Spaced(<<"join", "us", "next", "week">>),
    Spaced(<<"follow", "us", "on">>) }

\* analyzeScript: const conversationalPatterns, the words they match whole
conversationalPatterns ==
  { <<"um">>, <<"uh">>, <<"like">>, <<"wait">>, <<"exactly">>, <<"right">>,
    <<"yeah">> }

MatchesAny(l, patterns) == \E pat \in patterns : Contains(l, pat)

removeSubscriptionLanguage(lines) ==
  SelectSeq(lines, LAMBDA l : ~MatchesAny(l, removalPatterns))

\* "long" stands for a run of 3900 words, any other token outside
\* whitespace for a word or a part of one
Weight(tok) == IF tok = "long" THEN 3900 ELSE 1

RECURSIVE CountRuns(_, _)
\* split(/\s+/) and the count of the non-empty parts; atStart: the token
\* before was whitespace
CountRuns(l, atStart) ==
  IF l = <<>> THEN 0
  ELSE IF Head(l) = " " THEN CountRuns(Tail(l), TRUE)
  ELSE (IF atStart THEN Weight(Head(l)) ELSE 0) + CountRuns(Tail(l), FALSE)

\* countWords of one line
lineWords(l) == CountRuns(l, TRUE)

RECURSIVE InsertAtWord(_, _, _, _)
\* words.splice(position, 0, filler) and words.join(" ")
InsertAtWord(txt, position, filler, atStart) ==
  IF txt = <<>> THEN <<>>
  ELSE IF Head(txt) = " "
       THEN <<" ">> \o InsertAtWord(Tail(txt), position, filler, TRUE)
  ELSE IF atStart /\ position = 0 THEN <<filler, " ">> \o txt
  ELSE <<Head(txt)>> \o
       InsertAtWord(Tail(txt),
                    IF atStart THEN position - Weight(Head(txt)) ELSE position,
                    filler, FALSE)

\* line.includes("Host A:") || line.includes("Ashley:") || ...
isHostLine(l) ==
  \E lab \in {"host a", "ashley", "host b", "ric"} : Contains(l, <<lab, ":">>)

\* const [speaker, text] = line.split(":", 2)
SplitColon2(l) ==
  LET p == FirstColon(l)
      after == SubSeq(l, p + 1, Len(l))
      q == FirstColon(after)
  IN  [speaker |-> SubSeq(l, 1, p - 1),
       text |-> IF q = 0 THEN after ELSE SubSeq(after, 1, q - 1)]

\* what Math.random() decides for one host line
EnhanceChoices == {"none", "filler", "filler_middle", "reaction"}

\* the body of the loop of enhanceConversationalElements for line i (0-based)
enhanceLine(l, i, choice) ==
  IF trim(l) = <<>> \/ ~isHostLine(l) \/ choice = "none" THEN l
  ELSE LET parts == SplitColon2(l)
           txt == trim(parts.text)
           n == lineWords(txt)
       IN  IF choice = "filler_middle" /\ n > 5
           THEN parts.speaker \o <<":", " ">> \o
                InsertAtWord(txt, n \div 2, "um", TRUE)
           ELSE IF choice \in {"filler", "filler_middle"}
           THEN parts.speaker \o <<":", " ", "um", " ">> \o txt
           ELSE IF i > 0
           THEN parts.speaker \o <<":", " ", "right", ".", " ">> \o txt
           ELSE l

enhanceConversationalElements(lines, choice) ==
  [i \in 1..Len(lines) |-> enhanceLine(lines[i], i - 1, choice[i])]

\* .replace(/Host A:/gi, "Ashley:").replace(/Host B:/gi, "Ric:") on a line
ReplaceHost(l) ==
  [k \in 1..Len(l) |->
     IF k < Len(l) /\ l[k + 1] = ":" /\ l[k] = "host a" THEN "ashley"
     ELSE IF k < Len(l) /\ l[k + 1] = ":" /\ l[k] = "host b" THEN "ric"
     ELSE l[k]]

replaceHostNamesInScript(lines) ==
  [i \in 1..Len(lines) |-> ReplaceHost(lines[i])]

\* /^(Ashley|Ric|Host A|Host B):/i.test(line.trim())
StartsWithSpeaker(l) ==
  LET t == trim(l)
  IN  Len(t) >= 2 /\ t[1] \in {"ashley", "ric", "host a", "host b"} /\ t[2] = ":"

cleanScriptMetadata(lines) ==
  IF \E k \in 2..Len(lines) :
        StartsWithSpeaker(lines[k]) /\ \A j \in 1..(k - 1) : ~StartsWithSpeaker(lines[j])
  THEN LET first == CHOOSE k \in 2..Len(lines) :
                      /\ StartsWithSpeaker(lines[k])
                      /\ \A j \in 1..(k - 1) : ~StartsWithSpeaker(lines[j])
       IN  SubSeq(lines, first, Len(lines))
  ELSE lines

hasSubscriptionLanguage(lines) ==
  \E i \in 1..Len(lines) : MatchesAny(lines[i], subscriptionPatterns)

hasConversationalElements(lines) ==
  \E i \in 1..Len(lines) : MatchesAny(lines[i], conversationalPatterns)

\* the lines analyzeScript hands to enhanceConversationalElements
LinesToEnhance(lines) ==
  IF hasSubscriptionLanguage(lines) THEN removeSubscriptionLanguage(lines)
  ELSE lines

\* analyzeScript(script); choice is what Math.random() decides in
\* enhanceConversationalElements
analyzeScript(lines, choice) ==
  LET sub == hasSubscriptionLanguage(lines)
      conv == hasConversationalElements(lines)
      enhanced == IF conv THEN LinesToEnhance(lines)
                  ELSE enhanceConversationalElements(LinesToEnhance(lines),
                                                     choice)
  IN  [hasSubscriptionLanguage |-> sub,
       hasConversationalElements |-> conv,
       improvements |->
         (IF sub THEN <<"Removed subscription language">> ELSE <<>>) \o
         (IF conv THEN <<>> ELSE <<"Added conversational elements">>),
       improvedScript |-> replaceHostNamesInScript(enhanced)]

NoAnalysis ==
  [hasSubscriptionLanguage |-> FALSE, hasConversationalElements |-> FALSE,
   improvements |-> <<>>, improvedScript |-> <<>>]

\* the conclusion the trimming pushes: an empty line and four speaker
\* lines; the second holds "like", the last "Thanks for joining us, and we
\* hope you'll tune in next time for more engaging discussions!"
ClosingLines ==
  << <<>>,
     <<"ashley", ":", " ", "w", ".">>,
     <<"ric", ":", " ", "w", " ", "like", " ", "w">>,
     <<"ashley", ":", " ", "w">>,
     <<"ric", ":", " ", "thanks for joining", " ", "w", " ">> \o
       Spaced(<<"tune", "in", "next", "time">>) \o <<" ", "w", "!">> >>

\* a line as trimScriptPreservingStructure looks at it
TrimView(l) ==
  IF trim(l) = <<>> THEN EmptyLine
  ELSE TextLine(lineWords(l),
                \E k \in 1..Len(l) : l[k] \in {"conclude", "thanks for joining"})

\* trimScriptPreservingStructure on token lines: a line is kept in its
\* place or replaced by an empty line, the conclusion is pushed behind
trimTokenLines(lines, maxWords) ==
  LET view == [i \in 1..Len(lines) |-> TrimView(lines[i])]
      res == trimScriptPreservingStructure(view, maxWords)
  IN  IF res = view THEN lines
      ELSE [i \in 1..Len(res) |->
              IF i > Len(lines) THEN ClosingLines[i - Len(lines)]
              ELSE IF res[i] = EmptyLine THEN <<>>
              ELSE lines[i]]

\* countWords of the script
scriptWords(lines) ==
  countWords([i \in 1..Len(lines) |-> TrimView(lines[i])])

\* longest generated script, in lines
MaxPostLines == 2

\* lines of a generated script: an empty line, a title, a line under an
\* alias label with two sentences, a line with a filler word and a comma,
\* two lines the removal patterns match, a content line with the word
\* "subscribe", a line of 7800 words
PostLines ==
  { <<>>,
    <<"w">>,
    <<"host a", ":", " ", "w", ".", " ", "w", "!">>,
    <<"ric", ":", " ", "um", ",", " ", "w">>,
    <<"ashley", ":", " ">> \o Spaced(<<"join", "us", "next", "week">>),
    <<"ric", ":", " ">> \o Spaced(<<"subscribe", "to", "our", "podcast">>),
    <<"ashley", ":", " ", "w", " ", "subscribe", " ", "w">>,
    <<"ric", ":", " ", "long", " ", "long">> }

\* app.js 976-1019: verifyScriptDuration and, above three times the
\* target, trimScriptPreservingStructure to twice the target
VerifyAndTrim ==
  /\ postPc = "verify"
  /\ IF scriptWords(completeScript) > TARGET_PODCAST_DURATION * 3 * WORDS_PER_MINUTE
       THEN /\ completeScript' =
                 trimTokenLines(completeScript,
                     calculateTargetWordCount(TARGET_PODCAST_DURATION * 2))
            /\ stageLog' = stageLog \o <<"duration", "trim">>
       ELSE /\ UNCHANGED completeScript
            /\ stageLog' = Append(stageLog, "duration")
  /\ postPc' = "analyze"
  /\ UNCHANGED <<response, usedChunking, scriptAnalysis, optimizedScript, notO>>

\* replaceHostNamesInScript called after cleanScriptMetadata
ReplaceHostNames_AfterClean ==
  /\ postPc = "replace"
  /\ completeScript' = replaceHostNamesInScript(cleanScriptMetadata(completeScript))
  /\ stageLog' = stageLog \o <<"strip", "normalize">>
  /\ postPc' = "clean"
  /\ UNCHANGED <<response, usedChunking, scriptAnalysis, optimizedScript, notO>>

\* app.js 1121
ReplaceHostNames ==
  /\ postPc = "replace"
  /\ completeScript' = replaceHostNamesInScript(completeScript)
  /\ stageLog' = Append(stageLog, "normalize")
  /\ postPc' = "clean"
  /\ UNCHANGED <<response, usedChunking, scriptAnalysis, optimizedScript, notO>>

\* app.js 1089-1102: analyzeScript, whose improvedScript is taken when it
\* lists an improvement
AnalyzeScript ==
  /\ postPc = "analyze"
  /\ \E choice \in [1..(IF hasConversationalElements(completeScript) THEN 0
                        ELSE Len(LinesToEnhance(completeScript)))
                    -> EnhanceChoices] :
       \E analysis \in {analyzeScript(completeScript, choice)} :
         /\ scriptAnalysis' = analysis
         /\ completeScript' = IF analysis.improvements # <<>>
                              THEN analysis.improvedScript
                              ELSE completeScript
         /\ stageLog' = stageLog \o
               (IF analysis.hasSubscriptionLanguage THEN <<"filter">> ELSE <<>>)
               \o <<"normalize">>
  /\ postPc' = "replace"
  /\ UNCHANGED <<response, usedChunking, optimizedScript, notO>>

\* app.js 1124
CleanMetadata ==
  /\ postPc = "clean"
  /\ completeScript' = cleanScriptMetadata(completeScript)
  /\ stageLog' = Append(stageLog, "strip")
  /\ postPc' = "optimize"
  /\ UNCHANGED <<response, usedChunking, scriptAnalysis, optimizedScript, notO>>

\* app.js 1127
OptimizeScript ==
  /\ postPc = "optimize"
  /\ optimizedScript' = optimizeScriptForTTS(completeScript)
  /\ stageLog' = Append(stageLog, "annotate")
  /\ postPc' = "done"
  /\ UNCHANGED <<completeScript, response, usedChunking, scriptAnalysis, notO>>

PostIdle ==
  /\ postPc = "idle"
  /\ usedChunking = FALSE
  /\ scriptAnalysis = NoAnalysis
  /\ stageLog = <<>>
  /\ optimizedScript = <<>>

PureIdle == TrimIdle /\ BudgetIdle /\ VoiceIdle /\ PostIdle

\* new RequestQueue(maxConcurrent, minInterval); lastRequestTime = 0, so the
\* first Date.now() - lastRequestTime is far beyond minInterval
QueueFields(k, m) ==
  /\ maxConcurrent = k
  /\ minInterval = m
  /\ queue = <<>>
  /\ activeRequests = 0
  /\ timeSinceLastRequest = minInterval
  /\ pc = [t \in Tasks |-> "idle"]
  /\ timer = [t \in Tasks |-> 0]
  /\ promise = [t \in Tasks |-> "pending"]
  /\ outcome = [t \in Tasks |-> "none"]
  /\ started = <<>>
  /\ sinceLastStart = minInterval
  /\ lastStartGap = minInterval
  /\ chunkResults = [t \in Tasks |-> 0]
  /\ arrival = <<>>

QueueFresh(k, m) ==
  /\ QueueFields(k, m)
  /\ completeScript = <<>>
  /\ response = "none"

InitQ ==
  /\ \E k \in 1..MaxConcurrent, m \in 1..MaxInterval : QueueFresh(k, m)
  /\ ChunkerIdle
  /\ GenIdle
  /\ TtsIdle
  /\ PureIdle

NextQ ==
  \/ \E t \in Tasks : add(t)
  \/ \E t \in Tasks : TimerFire(t)
  \/ \E t \in Tasks, ok \in BOOLEAN : Complete(t, ok)
  \/ Tick
  \/ JoinChunks
  \/ FailGeneration

\* a queue nobody uses
QueueIdle == QueueFresh(1, 1)
QueueOnly == QueueFields(1, 1)

InitC ==
  /\ \E S \in PositionSets(MaxBreaks) :
       \E n \in 0..MaxTextLen :
         /\ \A i \in S : i <= n
         /\ \E f \in [S -> BreakChars] : text = MkText(n, f)
  /\ chunkPc = "call"
  /\ targetChunkSize = 0
  /\ chunks = <<>>
  /\ startIndex = 0
  /\ truncated = FALSE
  /\ valveFired = FALSE
  /\ QueueIdle
  /\ GenIdle
  /\ TtsIdle
  /\ PureIdle

NextC == SplitCall \/ SplitIteration

InitG ==
  /\ GenFresh
  /\ completeScript = <<>>
  /\ response = "none"
  /\ QueueOnly
  /\ ChunkerIdle
  /\ TtsIdle
  /\ PureIdle

NextG ==
  \/ \E r \in ApiResults : WholeDocumentCall(r)
  \/ EnterChunk
  \/ \E r \in ApiResults : ChunkAttempt(r)
  \/ RateLimitWaitOver
  \/ BackoffWaitOver

\* the host as the server starts: ffmpeg installed or not, budget not yet
\* reached, temp and output directories empty
InitT ==
  /\ ffmpegAvailable \in BOOLEAN
  /\ budgetExhausted = FALSE
  /\ disk = EmptyDisk
  /\ RequestsIdle
  /\ QueueIdle
  /\ ChunkerIdle
  /\ GenIdle
  /\ PureIdle

NextT ==
  \/ \E r \in Requests, n \in 0..MaxLines : StartTts(r, n)
  \/ \E r \in Requests, line \in TtsLines, polly \in PollyOutcomes,
        limit \in BOOLEAN : SynthesizeLine(r, line, polly, limit)
  \/ \E r \in Requests, ok \in BOOLEAN : CreatePause(r, ok)
  \/ \E r \in Requests, io \in BOOLEAN : Combine(r, io)
  \/ \E r \in Requests, ended \in RepairOutcomes : Repair(r, ended)
  \/ \E r \in Requests : RemoveSegment(r)
  \/ BudgetActionFires

vars == <<qvars, rvars, cvars, gvars, hvars, tvars, pvars, ovars>>

SpecTts == InitT /\ [][NextT]_vars

\* a script of up to MaxScriptLines lines about to be trimmed
InitS ==
  /\ trimPc = "call"
  /\ \E n \in 0..MaxScriptLines : script \in [1..n -> ScriptLines]
  /\ maxWordCount = 0
  /\ trimResult = <<>>
  /\ BudgetIdle
  /\ VoiceIdle
  /\ QueueIdle
  /\ ChunkerIdle
  /\ GenIdle
  /\ TtsIdle
  /\ PostIdle

NextS ==
  \/ \E limit \in WordLimits : TrimCall(limit)
  \/ AcceptWholeScript

SpecTrim == InitS /\ [][NextS]_vars

\* a call of processChunkWithGroq for chunk chunkNumber of totalChunks
InitB ==
  /\ budgetPc = "call"
  /\ targetWordCount \in TargetWordCounts
  /\ totalChunks \in 1..MaxTotalChunks
  /\ chunkNumber \in 1..totalChunks
  /\ chunkWordCount = 0
  /\ TrimIdle
  /\ VoiceIdle
  /\ QueueIdle
  /\ ChunkerIdle
  /\ GenIdle
  /\ TtsIdle
  /\ PostIdle

NextB == AllocateWords

SpecBudget == InitB /\ [][NextB]_vars

\* a line of completeScript that comes out of the cleaning as line 0 or 1
InitV ==
  /\ voicePc = "script"
  /\ ttsEngine \in Engines
  /\ rawLine \in RawLines
  /\ lineNo \in 0..1
  /\ optLine = <<>>
  /\ synthArgs = NoSynthArgs
  /\ TrimIdle
  /\ BudgetIdle
  /\ QueueIdle
  /\ ChunkerIdle
  /\ GenIdle
  /\ TtsIdle
  /\ PostIdle

NextV == OptimizeForTts \/ SynthesizeCall

SpecVoice == InitV /\ [][NextV]_vars

\* a generated script enters the post-processing: after the whole-document
\* call (usedChunking false) or after the chunks were joined
InitO ==
  /\ usedChunking \in BOOLEAN
  /\ postPc = IF usedChunking THEN "analyze" ELSE "verify"
  /\ \E n \in 1..MaxPostLines : completeScript \in [1..n -> PostLines]
  /\ response = "none"
  /\ scriptAnalysis = NoAnalysis
  /\ stageLog = <<>>
  /\ optimizedScript = <<>>
  /\ QueueOnly
  /\ ChunkerIdle
  /\ GenIdle
  /\ TtsIdle
  /\ TrimIdle
  /\ BudgetIdle
  /\ VoiceIdle

NextO ==
  \/ VerifyAndTrim
  \/ AnalyzeScript
  \/ ReplaceHostNames
  \/ CleanMetadata
  \/ OptimizeScript

SpecPost == InitO /\ [][NextO]_vars

SpecGen == InitG /\ [][NextG]_vars

SpecChunk == InitC /\ [][NextC]_vars

SpecQueue == InitQ /\ [][NextQ]_vars

\* timers fire, the clock advances and every started requestFn settles
SpecQueueFair ==
  /\ SpecQueue
  /\ WF_vars(Tick)
  /\ \A t \in Tasks : WF_vars(TimerFire(t))
  /\ \A t \in Tasks : WF_vars(\E ok \in BOOLEAN : Complete(t, ok))

Spec == SpecQueue

\* ------------------------------------------------------------------ claims
Active == {t \in Tasks : pc[t] \in {"waiting", "running"}}

\* C1: at most maxConcurrent tasks are simultaneously active (admitted by
\* processQueue and not yet completed), in every reachable state.
C1_AtMostKActive == Cardinality(Active) <= maxConcurrent

\* a burst larger than k: k tasks active while another one is held back
C1_Witness ==
  /\ Cardinality(Active) = maxConcurrent
  /\ Len(queue) > 0
  /\ maxConcurrent >= 2

\* C2: two consecutive starts (requestFn invocations) are never closer
\* together than minInterval.
C2_StartsSpaced == Len(started) >= 2 => lastStartGap >= minInterval

\* three tasks admitted together: the second and third wait on the same
\* deadline and start at the same instant
C2_Witness == Len(started) >= 2 /\ lastStartGap = 0

Submitted == {t \in Tasks : pc[t] # "idle"}

\* C3: a completion (resolve or reject) decrements activeRequests and admits
\* the next queued task; every submitted task is eventually settled with its
\* own outcome; once all submitted tasks completed, activeRequests is 0 and
\* the queue is empty.
C3_CompletionAdmitsNext ==
  /\ [][\A t \in Tasks :
          (pc[t] = "running" /\ pc'[t] = "settled") =>
             IF queue # <<>>
               THEN /\ queue' = Tail(queue)
                    /\ pc'[Head(queue)] \in {"waiting", "running"}
                    /\ activeRequests' = activeRequests
               ELSE activeRequests' = activeRequests - 1]_vars
  /\ [](\A t \in Tasks :
          /\ promise[t] = "resolved" <=> outcome[t] = "ok"
          /\ promise[t] = "rejected" <=> outcome[t] = "err"
          /\ promise[t] # "pending" <=> pc[t] = "settled")
  /\ []((\A t \in Submitted : pc[t] = "settled") =>
          (activeRequests = 0 /\ queue = <<>>))
  /\ \A t \in Tasks : (pc[t] # "idle") ~> (promise[t] # "pending")

\* every task of a burst beyond k settled, some resolved and some rejected
C3_Witness ==
  /\ maxConcurrent < MaxTasks
  /\ \A t \in Tasks : pc[t] = "settled"
  /\ \E t \in Tasks : promise[t] = "rejected"
  /\ \E t \in Tasks : promise[t] = "resolved"
  /\ activeRequests = 0

\* C4: the joined script holds the result of chunk i at position i, whatever
\* the completion order of the chunk requests.
C4_JoinedInIndexOrder ==
  completeScript # <<>> =>
    /\ Len(completeScript) = MaxTasks
    /\ \A i \in Tasks : completeScript[i] = i

\* joined after the chunks completed in fully reversed order
C4_Witness ==
  /\ completeScript # <<>>
  /\ arrival = [i \in 1..MaxTasks |-> MaxTasks + 1 - i]

RECURSIVE Concat(_)
Concat(ss) == IF ss = <<>> THEN <<>> ELSE Head(ss) \o Concat(Tail(ss))

\* C5: the chunks returned by splitTextIntoChunks, concatenated in index
\* order, are the original text exactly.
C5_ChunksReconstructText == chunkPc = "done" => Concat(chunks) = text

\* a split in which one chunk was truncated to the ceiling and the
\* chunk-count safety check appended the remainder
C5_Witness ==
  /\ chunkPc = "done"
  /\ truncated
  /\ valveFired
  /\ Concat(chunks) = text

\* C6: every returned chunk, the last one included, is at most
\* GROQ_MAX_CHUNK_CHARS long.
C6_ChunksWithinCeiling ==
  chunkPc = "done" =>
    \A i \in 1..Len(chunks) : Len(chunks[i]) <= GROQ_MAX_CHUNK_CHARS

\* C7: the chunk count never exceeds MAX_CHUNK_COUNT; while text remains to
\* be split the count is below MAX_CHUNK_COUNT - 1, because at that count
\* the remainder is appended as one final chunk and the loop is left.
C7_ChunkCountBounded ==
  /\ Len(chunks) <= MAX_CHUNK_COUNT
  /\ chunkPc = "loop" => Len(chunks) < MAX_CHUNK_COUNT - 1
  /\ valveFired =>
       /\ chunkPc = "done"
       /\ Len(chunks) = MAX_CHUNK_COUNT
       /\ chunks[MAX_CHUNK_COUNT] = substring(text, startIndex, Len(text))

\* the safety check fired on a text that would otherwise need more chunks
C7_Witness ==
  /\ valveFired
  /\ Len(chunks) = MAX_CHUNK_COUNT
  /\ Len(chunks[MAX_CHUNK_COUNT]) > targetChunkSize

\* the remainder appended by the safety check is longer than the ceiling
C6_Witness ==
  /\ chunkPc = "done"
  /\ valveFired
  /\ Len(chunks[Len(chunks)]) > GROQ_MAX_CHUNK_CHARS

\* the chunk whose request failed for good, when there is one
ChunkFailedTerminally ==
  /\ genPc = "failed"
  /\ wholeResult = "too_large"
  /\ lastError # "chunk_too_large"

\* C8: a chunk request is attempted at most maxRetries + 1 = 6 times, after
\* 429 answers and after other failures alike; when all attempts failed the
\* request is answered with the generation failure, and neither a script nor
\* anything built from the chunks that succeeded is returned.
C8_ChunkAttemptsBounded ==
  /\ \A c \in ChunkNumbers : attempts[c] <= maxRetries + 1
  /\ retryCount > maxRetries => genPc \in {"wait429", "failed"}
  /\ ChunkFailedTerminally =>
       /\ attempts[chunkIdx + 1] = maxRetries + 1
       /\ response = "error"
       /\ respScript = <<>>
       /\ completeScript = <<>>

\* a later chunk answered 429 six times after an earlier chunk succeeded
C8_Witness ==
  /\ ChunkFailedTerminally
  /\ rateLimited = maxRetries + 1
  /\ scripts # <<>>
  /\ response = "error"

\* C9: the whole-document request is sent first and exactly once; chunk
\* requests are sent only after it failed with the oversize signal, and
\* after that signal the handler is in the chunked fallback.
C9_WholeOnceThenChunks ==
  /\ wholeCalls <= 1
  /\ genPc # "whole" => wholeCalls = 1
  /\ \A k \in 1..Len(requestLog) : (requestLog[k] = 0) <=> (k = 1)
  /\ Len(requestLog) > 1 => wholeResult = "too_large"
  /\ wholeResult = "too_large" => (nChunks >= 1 /\ genPc # "whole")

\* the oversize signal was followed by chunk requests that produced the script
C9_Witness ==
  /\ wholeResult = "too_large"
  /\ genPc = "scripted"
  /\ Len(requestLog) > 2
  /\ completeScript = scripts

\* C10: a transient upstream failure of a generation request, the
\* whole-document request included, ends the pipeline only after the request
\* was retried up to the retry ceiling.
C10_TransientRetried ==
  (response = "error" /\ lastError \in Transient \cup {"retries_exhausted"}) =>
     IF wholeResult = "too_large"
       THEN attempts[chunkIdx + 1] = maxRetries + 1
       ELSE wholeCalls > 1

AllLinesAttempted(r) ==
  synthCalls[r] = [k \in 1..nLines[r] |-> k - 1]

\* the synthesis loop of request r is over
LoopOver(r) == ttsPc[r] \in {"combine", "repair", "cleanup", "done"}

\* a line whose synthesis failed has no speech and no pause segment, and the
\* lines after it are attempted all the same
FailedLineSkipped(r) ==
  /\ \A idx \in failedLines[r] :
        /\ LinePath(idx) \notin Range(audioSegments[r])
        /\ PausePath(idx) \notin Range(audioSegments[r])
        /\ \A k \in 1..Len(produced[r]) : produced[r][k].line # idx
  /\ LoopOver(r) => AllLinesAttempted(r)

\* C12 as claimed: a generic synthesis failure on a line leaves no speech and
\* no pause segment for it, every later line is still attempted in order,
\* and the request does not fail because of that line.
C12_FailedLineNeverFailsRequest ==
  \A r \in Requests :
     /\ FailedLineSkipped(r)
     /\ failedLines[r] # {} => ttsResponse[r] # "error"

\* C12 as amended: a generic synthesis failure on a line leaves no speech and
\* no pause segment for it and every later line is still attempted in order;
\* the request fails over skipped lines only when no line at all was
\* synthesized, the combiner then throwing on the empty segment list.
C12_FailedLineSkipped ==
  \A r \in Requests :
     /\ FailedLineSkipped(r)
     /\ ttsResponse[r] = "error" => produced[r] = <<>>

\* the first line failed, the second was synthesized and the request
\* succeeded with the second line's speech only
C12_Witness ==
  \E r \in Requests :
     /\ failedLines[r] = {0}
     /\ synthCalls[r] = <<0, 1>>
     /\ LinePath(1) \in Range(audioSegments[r])
     /\ ttsResponse[r] = "ok"

\* ------------------------------------------------------------------ C13
\* C13: the audio assembled for a request that succeeds is the request's own
\* speech and pause segments in the order they were produced, none of them
\* reordered, dropped, duplicated or replaced.
C13_AssembledInProductionOrder ==
  \A r \in Requests : ttsResponse[r] = "ok" => assembled[r] = produced[r]

\* a request that succeeded holds a segment another request produced
C13_Witness ==
  \E r \in Requests :
     /\ ttsResponse[r] = "ok"
     /\ \E k \in 1..Len(assembled[r]) : assembled[r][k].req # r

\* ------------------------------------------------------------------ C14
\* temp files that still hold a segment request r produced
LeftBehind(r) ==
  {p \in TempPaths \cap DOMAIN disk :
     \E k \in 1..Len(disk[p]) : disk[p][k].req = r}

\* C14: when a request has been answered, be it with success, with an
\* assembly failure or with a budget stop, none of the per-line speech and
\* pause files it created is left in the temp directory.
C14_TempFilesRemoved ==
  \A r \in Requests : ttsPc[r] = "done" => LeftBehind(r) = {}

\* a request was answered with the assembly failure while its speech file is
\* still in the temp directory
C14_Witness ==
  \E r \in Requests :
     /\ ttsResponse[r] = "audio_failed"
     /\ LinePath(0) \in LeftBehind(r)

\* ------------------------------------------------------------------ C15
\* C15: a request is answered with success only if its final audio file
\* exists and is not empty, and a failed combination step always ends the
\* request with the failure answer.
C15_SuccessHasAudio ==
  \A r \in Requests :
     /\ ttsResponse[r] = "ok" =>
          /\ OutPath(r) \in DOMAIN disk
          /\ disk[OutPath(r)] # <<>>
     /\ combinedSuccess[r] = "false" => ttsResponse[r] = "audio_failed"

\* a request was answered with success and its final audio file is empty
C15_Witness ==
  \E r \in Requests :
     /\ ttsResponse[r] = "ok"
     /\ OutPath(r) \in DOMAIN disk
     /\ disk[OutPath(r)] = <<>>

\* ------------------------------------------------------------------ C16
\* request r is in the audio stage and not yet answered
InFlight(r) == ttsPc[r] \notin {"idle", "done"}

\* C16: two requests in the audio stage at the same time never use the same
\* temporary speech or pause file path.
C16_TempPathsDisjoint ==
  \A r1, r2 \in Requests :
     (r1 # r2 /\ InFlight(r1) /\ InFlight(r2)) =>
        Range(audioSegments[r1]) \cap Range(audioSegments[r2]) = {}

\* two requests in flight both list line_0.mp3, which holds the speech of
\* one of them only
C16_Witness ==
  \E r1, r2 \in Requests :
     /\ r1 # r2 /\ InFlight(r1) /\ InFlight(r2)
     /\ LinePath(0) \in Range(audioSegments[r1]) \cap Range(audioSegments[r2])
     /\ disk[LinePath(0)] = <<Segment(r2, "speech", 0)>>

\* ------------------------------------------------------------------ C17
\* C17: a call of trimScriptPreservingStructure with a script of at most
\* maxWordCount words returns the script as it is: no line is blanked and
\* no closing exchange is appended.
C17_WithinBudgetUnchanged ==
  (trimPc = "returned" /\ countWords(script) <= maxWordCount) =>
     trimResult = script

\* a script within the limit that has no conclusion pattern in its last
\* lines, so that trimming it would have appended the closing exchange
C17_Witness ==
  /\ trimPc = "returned"
  /\ Len(script) = MaxScriptLines
  /\ countWords(script) = maxWordCount
  /\ maxWordCount > 0
  /\ ~hasConclusion(script)
  /\ trimResult = script

\* ------------------------------------------------------------------ C18
\* C18: the script the handler keeps after a successful whole-document
\* generation has at most 2 * TARGET_PODCAST_DURATION * WORDS_PER_MINUTE
\* words when the generated script is estimated above three times the
\* target, and is the generated script itself otherwise.
C18_TrimmedToCeiling ==
  trimPc = "accepted" =>
     IF countWords(script) > 3 * TARGET_PODCAST_DURATION * WORDS_PER_MINUTE
     THEN countWords(trimResult) <= 2 * TARGET_PODCAST_DURATION * WORDS_PER_MINUTE
     ELSE trimResult = script

\* a one-line script above the threshold was kept whole and got the closing
\* exchange on top
C18_Witness ==
  /\ trimPc = "accepted"
  /\ script = <<TextLine(7800, FALSE)>>
  /\ trimResult = script \o ClosingExchange

\* ------------------------------------------------------------------ C19
\* the call is for the first or the last chunk and has returned its budget
EdgeChunkDone ==
  budgetPc = "done" /\ (chunkNumber = 1 \/ chunkNumber = totalChunks)

PollyVoices ==
  UNION {{VOICE_MAPPINGS[e].Ashley, VOICE_MAPPINGS[e].Ric} :
           e \in DOMAIN VOICE_MAPPINGS}

\* C20: a line handed to the synthesizer comes with one of the two voices
\* configured for the engine, never with an undefined one, and it is not a
\* stage-direction-only line (a line that starts with "[" and ends with
\* "]").
C20_VoiceAssignedNoStageDirection ==
  voicePc = "synthesized" =>
     /\ synthArgs.voice \in PollyVoices
     /\ synthArgs.voice \in {getVoices(ttsEngine).Ashley,
                             getVoices(ttsEngine).Ric}
     /\ ~StageDirection(trim(rawLine))
     /\ ~StageDirection(optLine)

\* under an engine name the table does not know, a line without a speaker
\* prefix at an odd index is synthesized with the standard voice of Ric
C20_Witness ==
  /\ voicePc = "synthesized"
  /\ ttsEngine = "other"
  /\ rawLine = <<" ", "w", " ">>
  /\ lineNo = 1
  /\ synthArgs = [text |-> <<"w">>, voice |-> "Matthew"]

\* ------------------------------------------------ claims C21 to C30
\* place of a transform in the list of the specification
ListedRank ==
  [normalize |-> 1, strip |-> 2, filter |-> 3, duration |-> 4, trim |-> 5,
   annotate |-> 6]

\* place of a transform in the handler
AppliedRank ==
  [duration |-> 1, trim |-> 2, filter |-> 3, normalize |-> 4, strip |-> 5,
   annotate |-> 6]

\* C21 as stated: the transforms run in the order speaker normalization,
\* metadata stripping, prohibited-phrase filtering, duration verification,
\* trimming, pause annotation: none runs before one listed earlier
C21_TransformsInListedOrder ==
  \A i, j \in 1..Len(stageLog) :
     i < j => ListedRank[stageLog[i]] <= ListedRank[stageLog[j]]

\* C21 amended: the transforms run in the order duration verification,
\* trimming, prohibited-phrase filtering, speaker normalization, metadata
\* stripping, pause annotation: none runs before one listed earlier
C21_TransformsInAppliedOrder ==
  \A i, j \in 1..Len(stageLog) :
     i < j => AppliedRank[stageLog[i]] <= AppliedRank[stageLog[j]]

\* a request whose script went through all six transforms
C21_Witness ==
  /\ postPc = "done"
  /\ \A stage \in DOMAIN AppliedRank :
        \E i \in 1..Len(stageLog) : stageLog[i] = stage

\* the markers optimizeScriptForTTS is written to insert
PauseMarkers ==
  {"[pause]", "[longpause]", "[shortpause]", "[mediumpause]", "[tinypause]"}

\* token k of line l is followed by a space and then by a pause marker
MarkerAfter(l, k) ==
  k + 2 <= Len(l) /\ l[k + 1] = " " /\ l[k + 2] \in PauseMarkers

\* C22: every speaker line comes back from optimizeScriptForTTS with a pause
\* marker after each ".", "!" or "?" that a space follows, after each comma
\* and semicolon, and after each filler word
C22_PauseMarkersInserted ==
  postPc = "done" =>
    \A i \in 1..Len(optimizedScript) :
       LET l == optimizedScript[i]
       IN  speakerMatch(l) # <<>> =>
             \A k \in 1..(Len(l) - 1) :
                /\ l[k] \in {".", "!", "?", ",", ";"} /\ l[k + 1] = " "
                     => MarkerAfter(l, k)
                /\ l[k] \in {"well", "um", "uh", "so"} => MarkerAfter(l, k)

\* optimizeScriptForTTS has returned a speaker line with a sentence end
\* inside
C22_Witness ==
  /\ postPc = "done"
  /\ \E i \in 1..Len(optimizedScript) :
        LET l == optimizedScript[i]
        IN  /\ speakerMatch(l) # <<>>
            /\ \E k \in 1..(Len(l) - 1) : l[k] = "." /\ l[k + 1] = " "

\* C23: after a 429 that carries a retry-after hint the wait is the hinted
\* time, never shorter; without a hint it is retryDelay varied by at most
\* 20% either way
C23_RetryAfterHonoured ==
  genPc = "wait429" =>
    IF retryAfter # 0
    THEN waitTime = retryAfter * 1000 * QuarterMs
    ELSE /\ 80 * retryDelay <= 100 * waitTime
         /\ 100 * waitTime <= 120 * retryDelay

\* the handler waits after a 429 that carried a retry-after header
C23_Witness == genPc = "wait429" /\ retryAfter # 0

\* C24: after consecutive generic failures of a chunk request the wait starts
\* at BaseRetryDelay and doubles with each failure, and no wait is longer
\* than RetryDelayCap
C24_BackoffDoublesUnderCap ==
  genPc = "wait" =>
    /\ waitTime <= RetryDelayCap * QuarterMs
    /\ rateLimited = 0 =>
         waitTime = BaseRetryDelay * QuarterMs * 2 ^ (retryCount - 1)

\* the fifth generic failure in a row of one chunk request
C24_Witness ==
  genPc = "wait" /\ rateLimited = 0 /\ retryCount = maxRetries

\* C25: splitTextIntoChunks does not return a chunk array once a chunk it
\* computed was longer than GROQ_MAX_CHUNK_CHARS: no such chunk is in the
\* result, and none was cut down to be put there
C25_OversizeChunkIsAnError ==
  chunkPc = "done" =>
    /\ ~truncated
    /\ ~\E i \in 1..Len(chunks) : Len(chunks[i]) > GROQ_MAX_CHUNK_CHARS

\* a split that computed a chunk above the ceiling, cut it down and returned
\* an array of chunks within the ceiling
C25_Witness ==
  /\ chunkPc = "done"
  /\ truncated
  /\ \A i \in 1..Len(chunks) : Len(chunks[i]) <= GROQ_MAX_CHUNK_CHARS

\* one iteration of the loop of splitTextIntoChunks: startIndex grows, stays
\* within the text, and every chunk pushed is non-empty
IterationAdvances ==
  chunkPc = "loop" =>
    /\ startIndex' > startIndex
    /\ startIndex' <= Len(text)
    /\ Len(chunks') > Len(chunks)
    /\ \A i \in (Len(chunks) + 1)..Len(chunks') : chunks'[i] # <<>>

\* C30: splitTextIntoChunks terminates for every text: each iteration of its
\* loop pushes a non-empty chunk and strictly increases startIndex, which
\* never passes the end of the text; the call is in the loop only while
\* the loop condition startIndex < text.length holds
C30_SplitTerminates ==
  /\ [][IterationAdvances]_vars
  /\ [](chunkPc = "loop" => startIndex < Len(text))

\* a split that went through the loop more than once, cut a chunk to the
\* ceiling and returned
C30_Witness ==
  /\ chunkPc = "done"
  /\ truncated
  /\ Len(chunks) >= 2
  /\ startIndex > 0

\* C26: when repairMp3File fails after a successful combination, the file at
\* the output path stays exactly what combineAudioFiles wrote, no failure
\* is answered, and the request ends with the success answer that refers to
\* that file
C26_FailedRepairKeepsCombinedFile ==
  \A r \in Requests :
     repairSuccess[r] = "false" =>
       /\ combinedSuccess[r] = "true"
       /\ OutPath(r) \in DOMAIN disk
       /\ disk[OutPath(r)] = assembled[r]
       /\ ttsResponse[r] \in {"none", "ok"}
       /\ ttsPc[r] = "done" => ttsResponse[r] = "ok"

\* on a host with ffmpeg a request was answered with success after its
\* repair pass had failed and left its too small file behind
C26_Witness ==
  \E r \in Requests :
     /\ ffmpegAvailable
     /\ repairSuccess[r] = "false"
     /\ RepairedPath(r) \in DOMAIN disk
     /\ ttsResponse[r] = "ok"

\* the segment whose creation puts a file at the path
SegmentAt(r, p) ==
  Segment(r, IF p[1] = "line" THEN "speech" ELSE "pause", p[2])

\* C27: when the segment list is handed to combineAudioFiles, every path in it
\* is one whose creation succeeded: synthesizeSpeech returned true for a
\* speech path, createSilence returned true for a pause path
C27_ListedSegmentsWereCreated ==
  \A r \in Requests :
     ttsPc[r] = "combine" =>
       \A k \in 1..Len(audioSegments[r]) :
          SegmentAt(r, audioSegments[r][k]) \in Range(produced[r])

\* a request reaches combineAudioFiles with a pause path in its list
C27_Witness ==
  \E r \in Requests :
     /\ ttsPc[r] = "combine"
     /\ \E k \in 1..Len(audioSegments[r]) : audioSegments[r][k][1] = "pause"

\* C28: the improvedScript analyzeScript returns holds no line that one of
\* the patterns of removeSubscriptionLanguage matches
C28_NoSubscriptionLineLeft ==
  postPc \notin {"verify", "analyze"} =>
    \A i \in 1..Len(scriptAnalysis.improvedScript) :
       ~MatchesAny(scriptAnalysis.improvedScript[i], removalPatterns)

\* analyzeScript has returned for a script in which it found subscription
\* language
C28_Witness ==
  /\ postPc \notin {"verify", "analyze"}
  /\ scriptAnalysis.hasSubscriptionLanguage
  /\ scriptAnalysis.improvedScript # <<>>

\* C29: once the chunked generation has been answered with a failure, no chunk
\* task that is still queued or waiting for its interval is started
C29_NoStartAfterFailure ==
  [][response = "error" =>
       \A t \in Tasks : pc[t] \in {"queued", "waiting"} => pc'[t] # "running"]_vars

\* every chunk task was submitted, the generation has been answered with a
\* failure, and a chunk task has not been started yet
C29_Witness ==
  /\ response = "error"
  /\ \A t \in Tasks : pc[t] # "idle"
  /\ \E t \in Tasks : pc[t] \in {"queued", "waiting"}

====
